---- MODULE Spec2Model ----
(***************************************************************************)
(* Atlas chat relay.                                                       *)
(*                                                                         *)
(*   supabase/functions/chat/index.ts   the streaming relay proxy: one     *)
(*       handler invocation per inbound request, a bounded retry loop      *)
(*       around the upstream fetch, one downgrade to the cheaper model.    *)
(*   src/components/ChatInterface.tsx   the conversation stream client:    *)
(*       streamChat drives a bounded retry loop around the relay call and  *)
(*       folds the event stream into the transcript.                       *)
(*                                                                         *)
(* A step of the model is what the code runs between two awaits: a         *)
(* handler resumes when the awaited promise settles and runs to its next   *)
(* await or to its return.                                                 *)
(***************************************************************************)
EXTENDS Integers, Sequences, FiniteSets, TLC

VARIABLES
    \* ---- proxy: the environment and, per invocation, the handler's locals
    keyConfigured,  \* Deno.env.get("LOVABLE_API_KEY") is set
    pc,             \* where each invocation of the handler stands
    inbound,        \* the inbound request (req)
    model,          \* let model
    triedLite,      \* let triedLite
    attempt,        \* the for-loop counter
    response,       \* const response, the last upstream response
    retryAfter,     \* const retryAfter, the delay handed to setTimeout
    sleeps,         \* number of setTimeout waits the invocation has begun
    upReqs,         \* the upstream requests the invocation has issued
    upResps,        \* the statuses upstream has answered with
    inflight,       \* upstream requests issued and not yet settled
    result,         \* the Response the handler returned
    \* ---- client: the primary conversation and the locals of streamChat
    messages,       \* useState: the transcript
    isLoading,      \* useState: the loading flag
    chatPc,         \* where the run of streamChat stands
    newMessages,    \* const newMessages
    chatAttempt,    \* let attempt
    resp,           \* const resp, the relay's response
    stream,         \* the chunks reader.read() has still to deliver
    textBuffer,     \* let textBuffer
    streamDone,     \* let streamDone
    assistantContent, \* let assistantContent
    \* ---- client: what the run has done, kept for the properties
    updates,        \* the contents the attempt has handed to setMessages
    calls,          \* runs of streamChat started so far
    transcriptBefore, \* the transcript when the run started
    relayReqs,      \* the message lists the run has sent to the relay
    relayResps,     \* how each relay call settled: a status, or 0 (it threw)
    delays,         \* the sleep(ms) calls of the run
    toasts,         \* the titles of the run's notifications
    \* ---- client: the auxiliary conversation and the locals of
    \*      streamAssistantChat
    assistantMessages,   \* useState: the auxiliary transcript
    isAssistantLoading,  \* useState: the auxiliary loading flag
    asstPc,              \* where the run of streamAssistantChat stands
    asstStream,          \* the chunks its reader has still to deliver
    asstTextBuffer,      \* let textBuffer
    asstStreamDone,      \* let streamDone
    asstContent,         \* let assistantContent
    \* ---- client: what the auxiliary run has done, kept for the properties
    asstCalls,           \* runs of streamAssistantChat started so far
    asstReqs,            \* the message lists the run has sent to the relay
    asstResps,           \* how the relay call settled: a status, or 0
    asstToasts           \* the titles of the run's notifications

proxyVars == <<keyConfigured, pc, inbound, model, triedLite, attempt, response,
               retryAfter, sleeps, upReqs, upResps, inflight, result>>

chatVars == <<messages, isLoading, chatPc, newMessages, chatAttempt, resp, stream,
              textBuffer, streamDone, assistantContent, updates, calls,
              transcriptBefore, relayReqs, relayResps, delays, toasts>>

\* The state of the primary conversation but for its transcript.
chatRest == <<isLoading, chatPc, newMessages, chatAttempt, resp, stream, textBuffer,
              streamDone, assistantContent, updates, calls, transcriptBefore,
              relayReqs, relayResps, delays, toasts>>

asstVars == <<assistantMessages, isAssistantLoading, asstPc, asstStream,
              asstTextBuffer, asstStreamDone, asstContent, asstCalls, asstReqs,
              asstResps, asstToasts>>

clientVars == <<chatVars, asstVars>>

vars == <<proxyVars, chatVars, asstVars>>

None == "none"

Last(s) == s[Len(s)]

(***************************************************************************)
(* Bounds of the model.                                                    *)
(***************************************************************************)
\* longest retry-after header value, in characters
MaxHdrLen == 2
\* utterances submitted to the primary conversation
MaxCalls == 2
\* chunks a body is delivered in
MaxChunks == 3

(***************************************************************************)
(* Proxy: constants of index.ts.                                           *)
(***************************************************************************)
maxRetries == 3
BackoffUnit == 800

PrimaryModel == "google/gemini-2.5-flash"
LiteModel == "google/gemini-2.5-flash-lite"

SystemPreamble ==
    [role |-> "system",
     content |-> <<"You are a helpful, knowledgeable AI assistant. Provide comprehensive, detailed, multi-paragraph answers with examples and clear structure when appropriate.">>]

\* The handler invocations; each is one inbound request.
Invocations == {1, 2}

Methods == {"OPTIONS", "POST"}

\* What req.json() and the use of its `messages` can meet: a JSON body with a
\* message list, a body that is not JSON, a JSON body without `messages`.
InboundBodies == {"valid", "malformed", "noMessages"}

InboundMessages ==
    { <<[role |-> "user", content |-> <<"h", "i">>]>>,
      <<[role |-> "user", content |-> <<"h", "i">>],
        [role |-> "assistant", content |-> <<"H", "i">>],
        [role |-> "user", content |-> <<"o", "k">>]>> }

\* Statuses upstream answers with: OK ones, rate limit, quota, others.
UpstreamStatuses == {200, 201, 402, 429, 404, 503}

UpstreamBodies == {"streamA", "streamB"}

(***************************************************************************)
(* Number(response.headers.get("retry-after")).  A header value is a       *)
(* sequence of characters, or NoHeader when the header is absent (get      *)
(* gives null).  Number(null) and Number of an empty or all-blank string   *)
(* are 0, Number of a decimal digit string (blanks around it trimmed) is   *)
(* its value, Number of anything else over this alphabet is NaN.           *)
(***************************************************************************)
HdrChars == {"0", "7", " ", "G"}
Digits == {"0", "7"}

DigitValue(c) == IF c = "7" THEN 7 ELSE 0

SeqsUpTo(S, n) == UNION { [1..k -> S] : k \in 0..n }

\* headers.get returns null for an absent header
NoHeader == <<"null">>

HeaderValues == {NoHeader} \cup SeqsUpTo(HdrChars, MaxHdrLen)

RECURSIVE TrimLeft(_)
TrimLeft(s) ==
    IF s # <<>> /\ Head(s) = " " THEN TrimLeft(Tail(s)) ELSE s

RECURSIVE TrimRight(_)
TrimRight(s) ==
    IF s # <<>> /\ s[Len(s)] = " " THEN TrimRight(SubSeq(s, 1, Len(s) - 1)) ELSE s

Trim(s) == TrimRight(TrimLeft(s))

RECURSIVE Decimal(_)
Decimal(s) ==
    IF s = <<>> THEN 0
    ELSE 10 * Decimal(SubSeq(s, 1, Len(s) - 1)) + DigitValue(s[Len(s)])

NaN == [nan |-> TRUE, val |-> 0]
Num(n) == [nan |-> FALSE, val |-> n]

Number(h) ==
    IF h = NoHeader THEN Num(0)
    ELSE LET t == Trim(h)
         IN  IF \A k \in 1..Len(t) : t[k] \in Digits THEN Num(Decimal(t)) ELSE NaN

\* JavaScript truthiness of a number: neither NaN nor 0.
Truthy(n) == ~n.nan /\ n.val # 0

\* index.ts line 49
RetryAfter(h, a) ==
    IF Truthy(Number(h)) THEN Number(h).val ELSE (a + 1) * BackoffUnit

(***************************************************************************)
(* Proxy: requests and responses.                                          *)
(***************************************************************************)
\* response.ok
IsOk(status) == status >= 200 /\ status <= 299

\* Mutant: the backoff branch tests for another status.
IsRateLimitedWrongStatus(status) == status = 503

\* index.ts line 48
IsRateLimited(status) == status = 429

\* Mutant: the downgrade branch forgets that it has run.
ShouldDowngradeAgain(status, tried) == status = 402

\* index.ts line 55
ShouldDowngrade(status, tried) == status = 402 /\ ~tried

\* Mutant: the downgrade keeps the model.
DowngradeModelUnchanged == PrimaryModel

\* index.ts line 56
DowngradeModel == LiteModel

\* index.ts line 61
IsQuota(status) == status = 402

UpstreamRequest(m, msgs) ==
    [model |-> m, messages |-> <<SystemPreamble>> \o msgs, stream |-> TRUE]

\* Nothing returned yet.
NoResponse ==
    [status |-> 0, contentType |-> None, body |-> None, modelUsed |-> None,
     error |-> None]

\* No request received yet, no upstream response received yet.
NoRequest == [method |-> None, body |-> None, messages |-> <<>>]
NoUpstreamResponse == [status |-> 0, retryAfter |-> NoHeader, body |-> None]

\* What upstream can answer.  Only a 429 response's retry-after header and
\* only an OK response's body are read by the handler.
UpstreamResponses ==
    { [status |-> s, retryAfter |-> h, body |-> b] :
        s \in UpstreamStatuses, h \in HeaderValues, b \in UpstreamBodies \cup {None} }

ReadParts(r) ==
    /\ (r.status # 429 => r.retryAfter = NoHeader)
    /\ (IsOk(r.status) <=> r.body # None)

PreflightResponse ==
    [status |-> 200, contentType |-> None, body |-> None, modelUsed |-> None,
     error |-> None]

\* Mutant: the header names the configured default, not the model used.
ModelUsedHeaderDefault(m) == PrimaryModel

\* index.ts line 43
ModelUsedHeader(m) == m

StreamResponse(m, r) ==
    [status |-> 200, contentType |-> "text/event-stream", body |-> r.body,
     modelUsed |-> ModelUsedHeader(m), error |-> None]

ErrorResponse(status, message) ==
    [status |-> status, contentType |-> "application/json", body |-> None,
     modelUsed |-> None, error |-> message]

PaymentRequired ==
    ErrorResponse(402, "Payment required. Please add credits to your Lovable AI workspace.")

GatewayError == ErrorResponse(500, "AI gateway error")

RateLimitsExceeded ==
    ErrorResponse(429, "Rate limits exceeded, please try again shortly.")

\* Mutant: the catch clause drops the exception's message.
CaughtUnknown(message) == ErrorResponse(500, "Unknown error")

\* The catch clause (lines 81-86): the exception's message, status 500.
Caught(message) == ErrorResponse(500, message)

\* Mutant: the credential is never found missing.
CredentialNeverMissing(key) == FALSE

\* index.ts line 14
CredentialMissing(key) == ~key

KeyMissingMessage == "LOVABLE_API_KEY is not configured"
JsonSyntaxMessage == "Unexpected token in JSON"
NotIterableMessage == "messages is not iterable"
NetworkMessage == "error sending request"
BodyReadMessage == "error reading a body from connection"

(***************************************************************************)
(* Proxy: the handler.                                                     *)
(***************************************************************************)
Return(i, r) ==
    /\ result' = [result EXCEPT ![i] = r]
    /\ pc' = [pc EXCEPT ![i] = "done"]

\* Mutant: the loop runs one attempt too many.
LoopContinuesOneMore(a) == a <= maxRetries

\* index.ts line 20: the loop condition
LoopContinues(a) == a < maxRetries

\* The for-loop's test with the locals as given, then either the next fetch
\* (lines 21-39) or the return after the loop (lines 76-80).  n is the number of
\* the invocation's requests still in flight.
LoopTest(i, m, t, a, n) ==
    /\ model' = [model EXCEPT ![i] = m]
    /\ triedLite' = [triedLite EXCEPT ![i] = t]
    /\ attempt' = [attempt EXCEPT ![i] = a]
    /\ IF LoopContinues(a)
       THEN IF inbound[i].body = "noMessages"
            THEN \* `...messages` throws while the request body is built
                 /\ Return(i, Caught(NotIterableMessage))
                 /\ upReqs' = upReqs
                 /\ inflight' = [inflight EXCEPT ![i] = n]
            ELSE /\ upReqs' = [upReqs EXCEPT
                       ![i] = Append(@, UpstreamRequest(m, inbound[i].messages))]
                 /\ inflight' = [inflight EXCEPT ![i] = n + 1]
                 /\ pc' = [pc EXCEPT ![i] = "fetch"]
                 /\ result' = result
       ELSE /\ Return(i, RateLimitsExceeded)
            /\ upReqs' = upReqs
            /\ inflight' = [inflight EXCEPT ![i] = n]

\* Lines 8-12: a request with method m and body b (a message list msgs when it
\* is valid JSON) arrives; a preflight is answered at once, anything else
\* starts reading the body.
ReceiveRequest(i, m, b, msgs) ==
    /\ pc[i] = "idle"
    /\ inbound' = [inbound EXCEPT ![i] =
           [method |-> m, body |-> b,
            messages |-> IF b = "valid" THEN msgs ELSE <<>>]]
    /\ IF m = "OPTIONS"
       THEN Return(i, PreflightResponse)
       ELSE /\ pc' = [pc EXCEPT ![i] = "json"]
            /\ result' = result
    /\ UNCHANGED <<keyConfigured, model, triedLite, attempt, response, retryAfter,
                   sleeps, upReqs, upResps, inflight>>

Receive(i) ==
    \E m \in Methods, b \in InboundBodies, msgs \in InboundMessages :
        ReceiveRequest(i, m, b, msgs)

\* Mutant: `model` is declared outside the handler, one binding for every
\* invocation, so an invocation starts with the model another has downgraded to.
InitialModelShared(i) ==
    IF \E j \in Invocations \ {i} : model[j] = LiteModel
    THEN LiteModel ELSE PrimaryModel

\* index.ts line 16: `let model`, a binding of the invocation's own
InitialModel(i) == PrimaryModel

\* Lines 12-21: req.json() settles; the credential check; the loop is entered.
JsonSettled(i) ==
    /\ pc[i] = "json"
    /\ IF inbound[i].body = "malformed"
       THEN /\ Return(i, Caught(JsonSyntaxMessage))
            /\ UNCHANGED <<model, triedLite, attempt, upReqs, inflight>>
       ELSE IF CredentialMissing(keyConfigured)
            THEN /\ Return(i, Caught(KeyMissingMessage))
                 /\ UNCHANGED <<model, triedLite, attempt, upReqs, inflight>>
            ELSE LoopTest(i, InitialModel(i), FALSE, 0, inflight[i])
    /\ UNCHANGED <<keyConfigured, inbound, response, retryAfter, sleeps, upResps>>

\* Mutant: the wait is skipped when no attempt is left, as the client does.
BackoffWaitsIfRetrying(a) == a + 1 < maxRetries

\* lines 48-51: the 429 branch awaits the timer on every attempt
BackoffWaits(a) == TRUE

\* Lines 21-73: the fetch resolves with one of the responses in R; the handler
\* runs to its return, to the setTimeout wait, to response.text(), or (on the
\* downgrade) through `continue` into the next fetch.
FetchResolvedFrom(i, R) ==
    /\ pc[i] = "fetch"
    /\ \E r \in R :
         /\ ReadParts(r)
         /\ response' = [response EXCEPT ![i] = r]
         /\ upResps' = [upResps EXCEPT ![i] = Append(@, r.status)]
         /\ IF IsOk(r.status)
            THEN /\ Return(i, StreamResponse(model[i], r))
                 /\ inflight' = [inflight EXCEPT ![i] = @ - 1]
                 /\ UNCHANGED <<model, triedLite, attempt, retryAfter, sleeps, upReqs>>
            ELSE IF IsRateLimited(r.status) /\ BackoffWaits(attempt[i])
            THEN /\ retryAfter' = [retryAfter EXCEPT
                       ![i] = RetryAfter(r.retryAfter, attempt[i])]
                 /\ sleeps' = [sleeps EXCEPT ![i] = @ + 1]
                 /\ pc' = [pc EXCEPT ![i] = "sleep"]
                 /\ inflight' = [inflight EXCEPT ![i] = @ - 1]
                 /\ UNCHANGED <<model, triedLite, attempt, upReqs, result>>
            ELSE IF IsRateLimited(r.status)
            THEN /\ LoopTest(i, model[i], triedLite[i], attempt[i] + 1, inflight[i] - 1)
                 /\ UNCHANGED <<retryAfter, sleeps>>
            ELSE IF ShouldDowngrade(r.status, triedLite[i])
            THEN /\ LoopTest(i, DowngradeModel, TRUE, attempt[i] + 1, inflight[i] - 1)
                 /\ UNCHANGED <<retryAfter, sleeps>>
            ELSE IF IsQuota(r.status)
            THEN /\ Return(i, PaymentRequired)
                 /\ inflight' = [inflight EXCEPT ![i] = @ - 1]
                 /\ UNCHANGED <<model, triedLite, attempt, retryAfter, sleeps, upReqs>>
            ELSE /\ pc' = [pc EXCEPT ![i] = "text"]
                 /\ inflight' = [inflight EXCEPT ![i] = @ - 1]
                 /\ UNCHANGED <<model, triedLite, attempt, retryAfter, sleeps, upReqs,
                                result>>
    /\ UNCHANGED <<keyConfigured, inbound>>

FetchResolved(i) == FetchResolvedFrom(i, UpstreamResponses)

\* Line 21 throwing: the fetch rejects (a network error); lines 81-86.
FetchRejected(i) ==
    /\ pc[i] = "fetch"
    /\ Return(i, Caught(NetworkMessage))
    /\ inflight' = [inflight EXCEPT ![i] = @ - 1]
    /\ UNCHANGED <<keyConfigured, inbound, model, triedLite, attempt, response,
                   retryAfter, sleeps, upReqs, upResps>>

\* Lines 50-51: the timer fires; `continue` advances the loop.
SleepDone(i) ==
    /\ pc[i] = "sleep"
    /\ LoopTest(i, model[i], triedLite[i], attempt[i] + 1, inflight[i])
    /\ UNCHANGED <<keyConfigured, inbound, response, retryAfter, sleeps, upResps>>

\* Lines 68-73: response.text() settles; the gateway error, or the catch clause
\* when reading the body failed.
TextSettled(i) ==
    /\ pc[i] = "text"
    /\ \E failed \in BOOLEAN :
         Return(i, IF failed THEN Caught(BodyReadMessage) ELSE GatewayError)
    /\ UNCHANGED <<keyConfigured, inbound, model, triedLite, attempt, response,
                   retryAfter, sleeps, upReqs, upResps, inflight>>

ProxyStep(i) ==
    \/ Receive(i)
    \/ JsonSettled(i)
    \/ FetchResolved(i)
    \/ FetchRejected(i)
    \/ SleepDone(i)
    \/ TextSettled(i)

\* The proxy with the invocations in `arriving` still to come and the
\* credential configured or not as `keys` allows.
ProxyInit(arriving, keys) ==
    /\ keyConfigured \in keys
    /\ pc = [i \in Invocations |-> IF i \in arriving THEN "idle" ELSE "off"]
    /\ inbound = [i \in Invocations |-> NoRequest]
    /\ model = [i \in Invocations |-> None]
    /\ triedLite = [i \in Invocations |-> FALSE]
    /\ attempt = [i \in Invocations |-> 0]
    /\ response = [i \in Invocations |-> NoUpstreamResponse]
    /\ retryAfter = [i \in Invocations |-> 0]
    /\ sleeps = [i \in Invocations |-> 0]
    /\ upReqs = [i \in Invocations |-> <<>>]
    /\ upResps = [i \in Invocations |-> <<>>]
    /\ inflight = [i \in Invocations |-> 0]
    /\ result = [i \in Invocations |-> NoResponse]

(***************************************************************************)
(* Client: constants of ChatInterface.tsx.                                 *)
(***************************************************************************)
chatMaxRetries == 3
RateLimitUnit == 700
FailureUnit == 500

\* What the user can submit: nothing, blanks, an utterance (typed with a
\* leading blank), an address.
Queries ==
    { <<>>, <<" ">>, <<" ", "o", "k">>, <<"a", ".", "b">> }

WordChars == {"h", "i", "o", "k", "a", "b"}

\* Statuses the relay answers with; 204 is an OK response without a body.
RelayStatuses == {200, 204, 402, 429, 500}

(***************************************************************************)
(* Client: the event stream.  A text is a sequence of characters; the      *)
(* fixed parts of the wire format are single characters of the model:      *)
(* "data" the field name, OpenJson the text {"choices":[{"delta":{         *)
(* "content":" that opens an event, CloseJson the text "}}]} that closes   *)
(* it, EmptyDelta an event without content, DoneMark the text [DONE].      *)
(***************************************************************************)
LF == "LF"
CR == "CR"
DataPrefix == <<"data", ":", " ">>
OpenJson == "{content:"
CloseJson == "}"
EmptyDelta == "{}"
DoneMark == "[DONE]"

ContentChars == {"H", "e", "l", "o", "h", "i", " "}

\* String.prototype.trim: blanks and carriage returns at both ends go.
Whitespace == {" ", CR}

RECURSIVE TrimStart(_)
TrimStart(s) ==
    IF s # <<>> /\ Head(s) \in Whitespace THEN TrimStart(Tail(s)) ELSE s

RECURSIVE TrimEnd(_)
TrimEnd(s) ==
    IF s # <<>> /\ Last(s) \in Whitespace THEN TrimEnd(SubSeq(s, 1, Len(s) - 1)) ELSE s

JsTrim(s) == TrimEnd(TrimStart(s))

StartsWith(s, pre) == Len(s) >= Len(pre) /\ SubSeq(s, 1, Len(pre)) = pre

EndsWith(s, suf) ==
    Len(s) >= Len(suf) /\ SubSeq(s, Len(s) - Len(suf) + 1, Len(s)) = suf

\* indexOf, counting from 1; 0 when c is not in s.
IndexOf(s, c) ==
    IF \E k \in 1..Len(s) : s[k] = c
    THEN CHOOSE k \in 1..Len(s) : s[k] = c /\ \A j \in 1..(k - 1) : s[j] # c
    ELSE 0

\* JSON.parse and parsed.choices?.[0]?.delta?.content (lines 128-129): ok is
\* FALSE when JSON.parse throws, content is empty when the event has none.
JsonParse(p) ==
    IF p = <<EmptyDelta>>
    THEN [ok |-> TRUE, content |-> <<>>]
    ELSE IF /\ Len(p) >= 2
            /\ p[1] = OpenJson
            /\ p[Len(p)] = CloseJson
            /\ \A k \in 2..(Len(p) - 1) : p[k] \in ContentChars
         THEN [ok |-> TRUE, content |-> SubSeq(p, 2, Len(p) - 1)]
         ELSE [ok |-> FALSE, content |-> <<>>]

\* Mutant: the updater appends an entry for every delta.
FoldDeltaAppends(prev, content) ==
    Append(prev, [role |-> "assistant", content |-> content])

\* The updater handed to setMessages (lines 132-138).
FoldDelta(prev, content) ==
    IF prev # <<>> /\ Last(prev).role = "assistant"
    THEN [k \in 1..Len(prev) |->
            IF k = Len(prev) THEN [prev[k] EXCEPT !.content = content] ELSE prev[k]]
    ELSE Append(prev, [role |-> "assistant", content |-> content])

\* Mutant: the sentinel is taken for a payload.
IsSentinelNever(jsonStr) == FALSE

\* line 125
IsSentinel(jsonStr) == jsonStr = <<DoneMark>>

\* Mutant: a chunk replaces the buffer, the unfinished line is lost.
BufferedChunkOnly(buf, chunk) == chunk

\* line 113
Buffered(buf, chunk) == buf \o chunk

\* The inner while loop (lines 116-144) over the lines the buffer holds.  The
\* updaters queued by one pass run in order on the latest transcript; run one
\* by one, as here, or together at the next render, they leave the same
\* transcript when the pass ends.
RECURSIVE DecodeLines(_)
DecodeLines(st) ==
    LET newlineIndex == IndexOf(st.buf, LF)
    IN  IF newlineIndex = 0
        THEN st
        ELSE LET raw == SubSeq(st.buf, 1, newlineIndex - 1)
                 rest == SubSeq(st.buf, newlineIndex + 1, Len(st.buf))
                 line == IF EndsWith(raw, <<CR>>)
                         THEN SubSeq(raw, 1, Len(raw) - 1)
                         ELSE raw
                 next == [st EXCEPT !.buf = rest]
                 jsonStr == JsTrim(SubSeq(line, Len(DataPrefix) + 1, Len(line)))
                 parsed == JsonParse(jsonStr)
             IN  IF StartsWith(line, <<":">>) \/ JsTrim(line) = <<>>
                 THEN DecodeLines(next)
                 ELSE IF ~StartsWith(line, DataPrefix)
                 THEN DecodeLines(next)
                 ELSE IF IsSentinel(jsonStr)
                 THEN [next EXCEPT !.done = TRUE]
                 ELSE IF ~parsed.ok
                 THEN [st EXCEPT !.buf = line \o <<LF>> \o rest]
                 ELSE IF parsed.content # <<>>
                 THEN DecodeLines(
                        [next EXCEPT
                            !.content = st.content \o parsed.content,
                            !.msgs = FoldDelta(st.msgs, st.content \o parsed.content),
                            !.log = Append(st.log, st.content \o parsed.content)])
                 ELSE DecodeLines(next)

\* Streams the relay can hand over, as the chunks reader.read() delivers.
DataLine(payload) == DataPrefix \o payload \o <<LF>>
Delta(c) == <<OpenJson>> \o c \o <<CloseJson>>

Streams ==
    { \* two events and the sentinel, a chunk each
      << DataLine(Delta(<<"H", "e">>)), DataLine(Delta(<<"l", "l", "o">>)),
         DataLine(<<DoneMark>>) >>,
      \* one event cut inside its payload, ended by the end of the body
      << DataPrefix \o <<OpenJson, "h">>, <<"i", CloseJson, LF>> >>,
      \* a comment, an event and the sentinel in one chunk, CR LF line ends
      << <<":", "o", "k", CR, LF>> \o DataPrefix \o Delta(<<"h", "i">>) \o <<CR, LF>>
           \o DataLine(<<DoneMark>>) >>,
      \* a line whose payload does not parse, then an event
      << DataLine(<<OpenJson, "h">>), DataLine(Delta(<<"i">>)) >>,
      \* a body that ends at once
      << >> }

(***************************************************************************)
(* Client: the bodies reader.read() can deliver.  A body is a text, and    *)
(* the transport cuts it into chunks wherever it likes.                    *)
(***************************************************************************)
BodyTexts ==
    { \* one event and the sentinel
      DataLine(Delta(<<"h", "i">>)) \o DataLine(<<DoneMark>>),
      \* two events and the sentinel
      DataLine(Delta(<<"H", "e">>)) \o DataLine(Delta(<<"l", "l", "o">>))
        \o DataLine(<<DoneMark>>),
      \* a comment, a blank line, a line of another field, an event with blanks
      \* around its payload and CR LF, an event without content, the sentinel,
      \* an event after the sentinel
      <<":", "o", "k", CR, LF>> \o <<LF>> \o <<"i", "d", ":", " ", "h", LF>>
        \o DataPrefix \o <<" ">> \o Delta(<<"h">>) \o <<" ", CR, LF>>
        \o DataLine(<<EmptyDelta>>) \o DataLine(Delta(<<"i">>))
        \o DataLine(<<DoneMark>>) \o DataLine(Delta(<<"o">>)),
      \* two events, the body ending after the second without a line feed
      DataLine(Delta(<<"h">>)) \o DataPrefix \o Delta(<<"i">>),
      \* two events and no sentinel, the body ending after a line feed
      DataLine(Delta(<<"h">>)) \o DataLine(Delta(<<"i">>)),
      \* a line whose payload does not parse, then an event and the sentinel
      DataLine(<<OpenJson, "h">>) \o DataLine(Delta(<<"i">>)) \o DataLine(<<DoneMark>>),
      \* an empty body
      <<>> }

\* The text the chunks make.
RECURSIVE Flatten(_)
Flatten(chunks) ==
    IF chunks = <<>> THEN <<>> ELSE Head(chunks) \o Flatten(Tail(chunks))

\* The sets of at most k places, among 1..m, where a text is cut.
RECURSIVE CutSets(_, _)
CutSets(m, k) ==
    IF k = 0 THEN {{}}
    ELSE LET fewer == CutSets(m, k - 1)
         IN  fewer \cup { C \cup {c} : C \in fewer, c \in 1..m }

\* The chunks of text t cut after the places in C.
SplitAt(t, C) ==
    LET ends == C \cup {Len(t)}
        EndOf(k) == CHOOSE e \in ends : Cardinality({d \in ends : d <= e}) = k
    IN  [k \in 1..Cardinality(ends) |->
            SubSeq(t, IF k = 1 THEN 1 ELSE EndOf(k - 1) + 1, EndOf(k))]

\* Every way to deliver t in at most MaxChunks chunks, none of them empty.
Splits(t) ==
    IF t = <<>> THEN {<<>>}
    ELSE { SplitAt(t, C) : C \in CutSets(Len(t) - 1, MaxChunks - 1) }

ChunkedBodies == UNION { Splits(t) : t \in BodyTexts }

\* An OK answer with one of these bodies.
BodyResponses ==
    { [status |-> 200, hasBody |-> TRUE, modelUsed |-> None, stream |-> c] :
        c \in ChunkedBodies }

(***************************************************************************)
(* Client: handleSubmit and streamChat.                                    *)
(***************************************************************************)
\* The urlPattern test (line 300) over the characters a query is made of:
\* words joined by single dots, at least two of them.
IsUrl(t) ==
    /\ Len(t) >= 3
    /\ \A k \in 1..Len(t) : t[k] \in WordChars \cup {"."}
    /\ t[1] # "." /\ t[Len(t)] # "."
    /\ \E k \in 1..Len(t) : t[k] = "."
    /\ \A k \in 1..(Len(t) - 1) : ~(t[k] = "." /\ t[k + 1] = ".")

\* Mutant: the new list forgets the transcript so far.
NewMessagesWithoutHistory(prev, userMessage) ==
    <<[role |-> "user", content |-> userMessage]>>

\* line 50
NewMessages(prev, userMessage) ==
    Append(prev, [role |-> "user", content |-> userMessage])

\* Mutant: the rate-limit backoff counts from the next attempt.
RateLimitDelayNextAttempt(a) == RateLimitUnit * (a + 1)

\* line 72
RateLimitDelay(a) == RateLimitUnit * a

\* Mutant: the wait after a failure does not grow with the attempts.
FailureDelayFlat(a) == FailureUnit

\* line 157
FailureDelay(a) == FailureUnit * a

\* Mutant: the quota status is not told from the other failure statuses.
OutOfCreditsNever(status) == FALSE

\* line 86
OutOfCredits(status) == status = 402

\* Mutant: the loop gives up one attempt before the branches inside it do.
ChatLoopContinuesOneLess(a) == a < chatMaxRetries - 1

\* line 58: the loop condition
ChatLoopContinues(a) == a < chatMaxRetries

\* line 100
IncludesFlashLite(m) == m = LiteModel

NoRelayResponse ==
    [status |-> 0, hasBody |-> FALSE, modelUsed |-> None, stream |-> <<>>]

\* What the relay can answer: a stream with or without the model header, an OK
\* response without a body, or an error status.
RelayResponses ==
    { [status |-> 200, hasBody |-> TRUE, modelUsed |-> m, stream |-> c] :
        m \in {None, PrimaryModel, LiteModel}, c \in Streams }
    \cup { [NoRelayResponse EXCEPT !.status = 204] }
    \cup { [NoRelayResponse EXCEPT !.status = st, !.hasBody = TRUE] :
             st \in RelayStatuses \ {200, 204} }

\* The relay's answers without the model header, a body being one that ends
\* at once, two events and the sentinel, or one event cut inside its payload.
ClientResponses ==
    { r \in RelayResponses :
        /\ r.modelUsed = None
        /\ \/ r.stream = <<>>
           \/ Flatten(r.stream) = DataLine(Delta(<<"H", "e">>))
                 \o DataLine(Delta(<<"l", "l", "o">>)) \o DataLine(<<DoneMark>>)
           \/ Flatten(r.stream) = DataLine(Delta(<<"h", "i">>)) }

\* The while loop's test (line 58) and the fetch it guards (lines 60-67); past
\* the loop the function ends.
ChatLoopTest(reqs, body) ==
    IF ChatLoopContinues(chatAttempt')
    THEN /\ relayReqs' = Append(reqs, [messages |-> body])
         /\ chatPc' = "fetch"
    ELSE /\ relayReqs' = reqs
         /\ chatPc' = "idle"

\* The catch clause (lines 149-158).
ChatCatch ==
    /\ chatAttempt' = chatAttempt + 1
    /\ IF chatAttempt + 1 >= chatMaxRetries
       THEN /\ toasts' = Append(toasts, "Error")
            /\ isLoading' = FALSE
            /\ chatPc' = "idle"
            /\ delays' = delays
       ELSE /\ delays' = Append(delays, FailureDelay(chatAttempt + 1))
            /\ chatPc' = "sleep"
            /\ UNCHANGED <<toasts, isLoading>>

\* Mutant: the guard forgets the loading flag.
SubmitRejectedOnBlankOnly(q, loading) == JsTrim(q) = <<>>

\* lines 297 and 315: the guard of a submit
SubmitRejected(q, loading) == JsTrim(q) = <<>> \/ loading

\* handleSubmit (lines 295-311) and, for an utterance, streamChat up to its
\* first fetch (lines 49-67).  An address opens a tab, which is no part of
\* the conversation.
Submit(q) ==
    IF SubmitRejected(q, isLoading)
    THEN UNCHANGED chatVars
    ELSE IF IsUrl(JsTrim(q))
    THEN UNCHANGED chatVars
    ELSE    /\ calls < MaxCalls
            /\ newMessages' = NewMessages(messages, q)
            /\ messages' = newMessages'
            /\ isLoading' = TRUE
            /\ chatAttempt' = 0
            /\ ChatLoopTest(<<>>, newMessages')
            /\ calls' = calls + 1
            /\ transcriptBefore' = messages
            /\ relayResps' = <<>>
            /\ delays' = <<>>
            /\ toasts' = <<>>
            /\ resp' = NoRelayResponse
            /\ stream' = <<>>
            /\ textBuffer' = <<>>
            /\ streamDone' = FALSE
            /\ assistantContent' = <<>>
            /\ updates' = <<>>

\* Mutant: the accumulator is declared outside the loop and keeps the text of
\* the attempt before.
AttemptContentKept(previous) == previous

\* line 106: `let assistantContent = ""`, inside the try of each attempt
AttemptContent(previous) == <<>>

\* Mutant: only a missing body throws.
FailedToStartNoBodyOnly(status, hasBody) == ~hasBody

\* line 96: !resp.ok || !resp.body
FailedToStart(status, hasBody) == ~IsOk(status) \/ ~hasBody

\* Lines 60-108: the fetch resolves with one of the answers in R; the status
\* branches, then the reader.
RelayResolvedFrom(R) ==
    /\ chatPc = "fetch"
    /\ \E r \in R :
         /\ resp' = r
         /\ relayResps' = Append(relayResps, r.status)
         /\ IF r.status = 429
            THEN /\ chatAttempt' = chatAttempt + 1
                 /\ IF chatAttempt + 1 < chatMaxRetries
                    THEN /\ toasts' = Append(toasts, "Rate limited")
                         /\ delays' = Append(delays, RateLimitDelay(chatAttempt + 1))
                         /\ chatPc' = "sleep"
                         /\ UNCHANGED isLoading
                    ELSE /\ toasts' = Append(toasts, "Rate limit exceeded")
                         /\ isLoading' = FALSE
                         /\ chatPc' = "idle"
                         /\ UNCHANGED delays
                 /\ UNCHANGED <<stream, textBuffer, streamDone, assistantContent,
                                updates>>
            ELSE IF OutOfCredits(r.status)
            THEN /\ toasts' = Append(toasts, "Out of credits")
                 /\ isLoading' = FALSE
                 /\ chatPc' = "idle"
                 /\ UNCHANGED <<chatAttempt, delays, stream, textBuffer, streamDone,
                                assistantContent, updates>>
            ELSE IF FailedToStart(r.status, r.hasBody)
            THEN /\ ChatCatch
                 /\ UNCHANGED <<stream, textBuffer, streamDone, assistantContent,
                                updates>>
            ELSE /\ toasts' = IF IncludesFlashLite(r.modelUsed)
                              THEN Append(toasts, "Economy mode")
                              ELSE toasts
                 /\ stream' = r.stream
                 /\ textBuffer' = <<>>
                 /\ streamDone' = FALSE
                 /\ assistantContent' = AttemptContent(assistantContent)
                 /\ updates' = <<>>
                 /\ chatPc' = "read"
                 /\ UNCHANGED <<chatAttempt, isLoading, delays>>
    /\ UNCHANGED <<messages, newMessages, calls, transcriptBefore, relayReqs>>

RelayResolved == RelayResolvedFrom(RelayResponses)

\* Line 60 throwing: the fetch rejects (a network error).
RelayRejected ==
    /\ chatPc = "fetch"
    /\ relayResps' = Append(relayResps, 0)
    /\ ChatCatch
    /\ UNCHANGED <<messages, newMessages, resp, stream, textBuffer, streamDone,
                   assistantContent, updates, calls, transcriptBefore, relayReqs>>

\* Mutant: a retry sends the transcript as it stands.
RetryBodyCurrent(fixed, current) == current

\* line 67: every attempt sends `newMessages`, the constant of line 50
RetryBody(fixed, current) == fixed

\* Lines 74-75 and 157-158: the sleep ends and the loop goes round.
ChatSleepDone ==
    /\ chatPc = "sleep"
    /\ chatAttempt' = chatAttempt
    /\ ChatLoopTest(relayReqs, RetryBody(newMessages, messages))
    /\ UNCHANGED <<messages, isLoading, newMessages, resp, stream, textBuffer,
                   streamDone, assistantContent, updates, calls, transcriptBefore,
                   relayResps, delays, toasts>>

\* Lines 110-148: reader.read() resolves, with the end of the body or with a
\* chunk whose lines are decoded; the sentinel or the end of the body ends the
\* run.
ReadResolved ==
    /\ chatPc = "read"
    /\ IF stream = <<>>
       THEN /\ isLoading' = FALSE
            /\ chatPc' = "idle"
            /\ UNCHANGED <<messages, stream, textBuffer, streamDone, assistantContent,
                           updates>>
       ELSE LET st == DecodeLines([buf |-> Buffered(textBuffer, Head(stream)),
                                   content |-> assistantContent,
                                   msgs |-> messages,
                                   log |-> updates,
                                   done |-> FALSE])
            IN  /\ stream' = Tail(stream)
                /\ updates' = st.log
                /\ textBuffer' = st.buf
                /\ assistantContent' = st.content
                /\ messages' = st.msgs
                /\ streamDone' = st.done
                /\ IF st.done
                   THEN isLoading' = FALSE /\ chatPc' = "idle"
                   ELSE UNCHANGED <<isLoading, chatPc>>
    /\ UNCHANGED <<newMessages, chatAttempt, resp, calls, transcriptBefore, relayReqs,
                   relayResps, delays, toasts>>

\* Line 111 throwing: the read rejects (the connection broke).
ReadRejected ==
    /\ chatPc = "read"
    /\ ChatCatch
    /\ UNCHANGED <<messages, newMessages, resp, stream, textBuffer, streamDone,
                   assistantContent, updates, calls, transcriptBefore, relayReqs,
                   relayResps>>

ChatInit ==
    /\ messages = <<>>
    /\ isLoading = FALSE
    /\ chatPc = "idle"
    /\ newMessages = <<>>
    /\ chatAttempt = 0
    /\ resp = NoRelayResponse
    /\ stream = <<>>
    /\ textBuffer = <<>>
    /\ streamDone = FALSE
    /\ assistantContent = <<>>
    /\ updates = <<>>
    /\ calls = 0
    /\ transcriptBefore = <<>>
    /\ relayReqs = <<>>
    /\ relayResps = <<>>
    /\ delays = <<>>
    /\ toasts = <<>>

(***************************************************************************)
(* Client: handleAssistantSubmit and streamAssistantChat.                  *)
(***************************************************************************)
\* What the user can submit to the assistant: blanks, an utterance.
AssistantQueries == { <<" ">>, <<"h", "i">> }

\* line 210, with no tab open
SystemPrompt ==
    [role |-> "system",
     content |-> <<"You are a helpful AI assistant that helps users navigate and understand websites. The user is currently viewing: a website.">>]

\* lines 212-216
AssistantNewMessages(prev, userMessage) ==
    <<SystemPrompt>> \o prev \o <<[role |-> "user", content |-> userMessage]>>

\* Mutant: the transcript is set to the list that is sent.
AssistantStoredWithPrompt(prev, userMessage) ==
    AssistantNewMessages(prev, userMessage)

\* line 217: the list handed to setAssistantMessages
AssistantStored(prev, userMessage) ==
    Append(prev, [role |-> "user", content |-> userMessage])

\* Mutant: the auxiliary driver calls the primary transcript's setter.
SetMessagesInstead(primary, auxiliary, v) ==
    [primary |-> v, auxiliary |-> auxiliary]

\* setAssistantMessages (lines 22, 217, 272): the component's two transcripts
\* after the call.
SetAssistantMessages(primary, auxiliary, v) ==
    [primary |-> primary, auxiliary |-> v]

\* The catch clause (lines 288-292).
AssistantCatch ==
    /\ asstToasts' = Append(asstToasts, "Error")
    /\ isAssistantLoading' = FALSE
    /\ asstPc' = "idle"

\* handleAssistantSubmit (lines 313-318) and streamAssistantChat up to its
\* fetch (lines 209-228).
AssistantSubmit(q) ==
    IF SubmitRejected(q, isAssistantLoading)
    THEN UNCHANGED <<chatVars, asstVars>>
    ELSE LET set == SetAssistantMessages(messages, assistantMessages,
                        AssistantStored(assistantMessages, q))
         IN  /\ asstCalls < MaxCalls
             /\ messages' = set.primary
             /\ assistantMessages' = set.auxiliary
             /\ asstReqs' = <<[messages |-> AssistantNewMessages(assistantMessages, q)]>>
             /\ isAssistantLoading' = TRUE
             /\ asstPc' = "fetch"
             /\ asstCalls' = asstCalls + 1
             /\ asstResps' = <<>>
             /\ asstToasts' = <<>>
             /\ asstStream' = <<>>
             /\ asstTextBuffer' = <<>>
             /\ asstStreamDone' = FALSE
             /\ asstContent' = <<>>
             /\ UNCHANGED chatRest

\* Lines 221-248: the fetch resolves with one of the answers in R; the status
\* branches, then the reader.
AssistantRelayResolvedFrom(R) ==
    /\ asstPc = "fetch"
    /\ \E r \in R :
         /\ asstResps' = Append(asstResps, r.status)
         /\ IF r.status = 429
            THEN /\ asstToasts' = Append(asstToasts, "Rate limited")
                 /\ isAssistantLoading' = FALSE
                 /\ asstPc' = "idle"
                 /\ UNCHANGED <<asstStream, asstTextBuffer, asstStreamDone, asstContent>>
            ELSE IF r.status = 402
            THEN /\ asstToasts' = Append(asstToasts, "Out of credits")
                 /\ isAssistantLoading' = FALSE
                 /\ asstPc' = "idle"
                 /\ UNCHANGED <<asstStream, asstTextBuffer, asstStreamDone, asstContent>>
            ELSE IF ~IsOk(r.status) \/ ~r.hasBody
            THEN /\ AssistantCatch
                 /\ UNCHANGED <<asstStream, asstTextBuffer, asstStreamDone, asstContent>>
            ELSE /\ asstStream' = r.stream
                 /\ asstTextBuffer' = <<>>
                 /\ asstStreamDone' = FALSE
                 /\ asstContent' = <<>>
                 /\ asstPc' = "read"
                 /\ UNCHANGED <<isAssistantLoading, asstToasts>>
    /\ UNCHANGED <<assistantMessages, asstCalls, asstReqs>>
    /\ UNCHANGED chatVars

AssistantRelayResolved == AssistantRelayResolvedFrom(ClientResponses)

\* Line 221 throwing: the fetch rejects (a network error).
AssistantRelayRejected ==
    /\ asstPc = "fetch"
    /\ asstResps' = Append(asstResps, 0)
    /\ AssistantCatch
    /\ UNCHANGED <<assistantMessages, asstStream, asstTextBuffer, asstStreamDone,
                   asstContent, asstCalls, asstReqs>>
    /\ UNCHANGED chatVars

\* Lines 250-287: reader.read() resolves, with the end of the body or with a
\* chunk whose lines are decoded.
AssistantReadResolved ==
    /\ asstPc = "read"
    /\ IF asstStream = <<>>
       THEN /\ isAssistantLoading' = FALSE
            /\ asstPc' = "idle"
            /\ UNCHANGED <<messages, assistantMessages, asstStream, asstTextBuffer,
                           asstStreamDone, asstContent>>
       ELSE LET st == DecodeLines([buf |-> Buffered(asstTextBuffer, Head(asstStream)),
                                   content |-> asstContent,
                                   msgs |-> assistantMessages,
                                   log |-> <<>>,
                                   done |-> FALSE])
                set == SetAssistantMessages(messages, assistantMessages, st.msgs)
            IN  /\ asstStream' = Tail(asstStream)
                /\ asstTextBuffer' = st.buf
                /\ asstContent' = st.content
                /\ messages' = IF st.log = <<>> THEN messages ELSE set.primary
                /\ assistantMessages' =
                       IF st.log = <<>> THEN assistantMessages ELSE set.auxiliary
                /\ asstStreamDone' = st.done
                /\ IF st.done
                   THEN isAssistantLoading' = FALSE /\ asstPc' = "idle"
                   ELSE UNCHANGED <<isAssistantLoading, asstPc>>
    /\ UNCHANGED <<asstCalls, asstReqs, asstResps, asstToasts>>
    /\ UNCHANGED chatRest

\* Line 251 throwing: the read rejects (the connection broke).
AssistantReadRejected ==
    /\ asstPc = "read"
    /\ AssistantCatch
    /\ UNCHANGED <<assistantMessages, asstStream, asstTextBuffer, asstStreamDone,
                   asstContent, asstCalls, asstReqs, asstResps>>
    /\ UNCHANGED chatVars

AssistantInit ==
    /\ assistantMessages = <<>>
    /\ isAssistantLoading = FALSE
    /\ asstPc = "idle"
    /\ asstStream = <<>>
    /\ asstTextBuffer = <<>>
    /\ asstStreamDone = FALSE
    /\ asstContent = <<>>
    /\ asstCalls = 0
    /\ asstReqs = <<>>
    /\ asstResps = <<>>
    /\ asstToasts = <<>>

(***************************************************************************)
(* One invocation of the proxy against an arbitrary upstream.              *)
(***************************************************************************)
Init == ProxyInit({1}, BOOLEAN) /\ ChatInit /\ AssistantInit

Next ==
    \/ Receive(1) /\ UNCHANGED clientVars
    \/ JsonSettled(1) /\ UNCHANGED clientVars
    \/ FetchResolved(1) /\ UNCHANGED clientVars
    \/ FetchRejected(1) /\ UNCHANGED clientVars
    \/ SleepDone(1) /\ UNCHANGED clientVars
    \/ TextSettled(1) /\ UNCHANGED clientVars

Spec == Init /\ [][Next]_vars

\* The handler's awaits settle: the runtime's event loop resumes a handler whose
\* promise (body read, fetch, timer) has settled.
Settles ==
    /\ \/ JsonSettled(1)
       \/ FetchResolved(1)
       \/ FetchRejected(1)
       \/ SleepDone(1)
       \/ TextSettled(1)
    /\ UNCHANGED clientVars

(***************************************************************************)
(* The primary conversation against an arbitrary relay.                    *)
(***************************************************************************)
ChatSpecInit == ProxyInit({}, {TRUE}) /\ ChatInit /\ AssistantInit

ChatNext ==
    \/ \E q \in Queries : Submit(q) /\ UNCHANGED <<proxyVars, asstVars>>
    \/ RelayResolved /\ UNCHANGED <<proxyVars, asstVars>>
    \/ RelayRejected /\ UNCHANGED <<proxyVars, asstVars>>
    \/ ChatSleepDone /\ UNCHANGED <<proxyVars, asstVars>>
    \/ ReadResolved /\ UNCHANGED <<proxyVars, asstVars>>
    \/ ReadRejected /\ UNCHANGED <<proxyVars, asstVars>>

ChatSpec == ChatSpecInit /\ [][ChatNext]_vars

(***************************************************************************)
(* The decoder: one utterance, the relay answering with a body cut into    *)
(* chunks in every way.                                                    *)
(***************************************************************************)
BodyArrives == RelayResolvedFrom(BodyResponses)

DecodeNext ==
    \/ \E q \in Queries : calls = 0 /\ Submit(q) /\ UNCHANGED <<proxyVars, asstVars>>
    \/ BodyArrives /\ UNCHANGED <<proxyVars, asstVars>>
    \/ ReadResolved /\ UNCHANGED <<proxyVars, asstVars>>

DecodeSpec == ChatSpecInit /\ [][DecodeNext]_vars

FairSpec == Spec /\ WF_vars(Settles)

(***************************************************************************)
(* The two conversations side by side against an arbitrary relay, MaxCalls *)
(* utterances submitted in all.                                            *)
(***************************************************************************)
ClientRelayResolved == RelayResolvedFrom(ClientResponses)

ChatSettles ==
    /\ \/ RelayRejected
       \/ ReadRejected
       \/ ChatSleepDone
       \/ ClientRelayResolved
       \/ ReadResolved
    /\ UNCHANGED <<proxyVars, asstVars>>

AssistantSettles ==
    /\ \/ AssistantRelayRejected
       \/ AssistantReadRejected
       \/ AssistantRelayResolved
       \/ AssistantReadResolved
    /\ UNCHANGED proxyVars

ClientNext ==
    \/ \E q \in Queries :
          calls + asstCalls < MaxCalls /\ Submit(q) /\ UNCHANGED <<proxyVars, asstVars>>
    \/ ClientRelayResolved /\ UNCHANGED <<proxyVars, asstVars>>
    \/ RelayRejected /\ UNCHANGED <<proxyVars, asstVars>>
    \/ ChatSleepDone /\ UNCHANGED <<proxyVars, asstVars>>
    \/ ReadResolved /\ UNCHANGED <<proxyVars, asstVars>>
    \/ ReadRejected /\ UNCHANGED <<proxyVars, asstVars>>
    \/ \E q \in AssistantQueries :
          calls + asstCalls < MaxCalls /\ AssistantSubmit(q) /\ UNCHANGED proxyVars
    \/ AssistantRelayResolved /\ UNCHANGED proxyVars
    \/ AssistantRelayRejected /\ UNCHANGED proxyVars
    \/ AssistantReadResolved /\ UNCHANGED proxyVars
    \/ AssistantReadRejected /\ UNCHANGED proxyVars

ClientSpec == ChatSpecInit /\ [][ClientNext]_vars

\* The awaits of the two drivers settle: each relay call and each body read
\* returns or fails, each timer fires.
FairClientSpec == ClientSpec /\ WF_vars(ChatSettles) /\ WF_vars(AssistantSettles)

(***************************************************************************)
(* Two invocations of the proxy side by side, their steps interleaved in   *)
(* every way, upstream answering each request arbitrarily.                 *)
(***************************************************************************)
ConcurrentInit == ProxyInit(Invocations, {TRUE}) /\ ChatInit /\ AssistantInit

\* Upstream's answers with one retry-after value and one body: every status,
\* the header absent or numeric.
ConcurrentResponses ==
    { r \in UpstreamResponses :
        /\ r.retryAfter \in {NoHeader, <<"7">>}
        /\ r.body \in {None, "streamA"} }

ConcurrentNext ==
    \/ \E i \in Invocations : Receive(i) /\ UNCHANGED clientVars
    \/ \E i \in Invocations : JsonSettled(i) /\ UNCHANGED clientVars
    \/ \E i \in Invocations : FetchResolvedFrom(i, ConcurrentResponses) /\ UNCHANGED clientVars
    \/ \E i \in Invocations : FetchRejected(i) /\ UNCHANGED clientVars
    \/ \E i \in Invocations : SleepDone(i) /\ UNCHANGED clientVars
    \/ \E i \in Invocations : TextSettled(i) /\ UNCHANGED clientVars

ConcurrentSpec == ConcurrentInit /\ [][ConcurrentNext]_vars

(***************************************************************************)
(* The client and the proxy composed: one utterance, submitted to either   *)
(* conversation (the two share nothing, C20 and C21), every relay call of  *)
(* the primary conversation handled by an invocation                       *)
(* in slot 1 and every one of the auxiliary conversation by an invocation  *)
(* in slot 2, one after another.  upReqs[i] keeps the upstream requests of *)
(* all the invocations that served the conversation; the rest of a slot is *)
(* cleared when its invocation has answered.                               *)
(***************************************************************************)
Primary == 1
Auxiliary == 2

\* Upstream's answers: OK, quota, rate limit, another failure; no header.
EndToEndResponses ==
    { r \in UpstreamResponses :
        /\ r.status \in {200, 402, 429, 503}
        /\ r.retryAfter = NoHeader
        /\ r.body \in {None, "streamA"} }

\* The chunks in which an upstream body reaches the client's reader.
BodyChunks(b) ==
    << DataLine(Delta(<<"H", "e">>)), DataLine(Delta(<<"l", "l", "o">>)),
       DataLine(<<DoneMark>>) >>

\* The proxy's Response as the client's fetch sees it.
AsRelayResponse(r) ==
    IF r.contentType = "text/event-stream"
    THEN [status |-> r.status, hasBody |-> TRUE, modelUsed |-> r.modelUsed,
          stream |-> BodyChunks(r.body)]
    ELSE [status |-> r.status, hasBody |-> TRUE, modelUsed |-> None, stream |-> <<>>]

\* The invocation in slot i is over; the next request gets a new one.
Release(i) ==
    /\ pc' = [pc EXCEPT ![i] = "idle"]
    /\ inbound' = [inbound EXCEPT ![i] = NoRequest]
    /\ model' = [model EXCEPT ![i] = None]
    /\ triedLite' = [triedLite EXCEPT ![i] = FALSE]
    /\ attempt' = [attempt EXCEPT ![i] = 0]
    /\ response' = [response EXCEPT ![i] = NoUpstreamResponse]
    /\ retryAfter' = [retryAfter EXCEPT ![i] = 0]
    /\ sleeps' = [sleeps EXCEPT ![i] = 0]
    /\ upResps' = [upResps EXCEPT ![i] = <<>>]
    /\ result' = [result EXCEPT ![i] = NoResponse]
    /\ UNCHANGED <<keyConfigured, upReqs, inflight>>

\* The client's fetch reaches the relay (lines 60-67, 221-228).
ChatCalls ==
    /\ chatPc = "fetch"
    /\ ReceiveRequest(Primary, "POST", "valid", Last(relayReqs).messages)
    /\ UNCHANGED clientVars

AssistantCalls ==
    /\ asstPc = "fetch"
    /\ ReceiveRequest(Auxiliary, "POST", "valid", Last(asstReqs).messages)
    /\ UNCHANGED clientVars

\* The relay's Response settles the client's fetch.
ChatReturns ==
    /\ pc[Primary] = "done"
    /\ RelayResolvedFrom({AsRelayResponse(result[Primary])})
    /\ Release(Primary)
    /\ UNCHANGED asstVars

AssistantReturns ==
    /\ pc[Auxiliary] = "done"
    /\ AssistantRelayResolvedFrom({AsRelayResponse(result[Auxiliary])})
    /\ Release(Auxiliary)

\* The client's fetch throws: the request did not arrive, or the Response
\* was lost.
ChatCallFails ==
    /\ pc[Primary] \in {"idle", "done"}
    /\ RelayRejected
    /\ Release(Primary)
    /\ UNCHANGED asstVars

AssistantCallFails ==
    /\ pc[Auxiliary] \in {"idle", "done"}
    /\ AssistantRelayRejected
    /\ Release(Auxiliary)

EndToEndInit == ProxyInit(Invocations, {TRUE}) /\ ChatInit /\ AssistantInit

EndToEndNext ==
    \/ \E q \in Queries :
          calls + asstCalls = 0 /\ Submit(q) /\ UNCHANGED <<proxyVars, asstVars>>
    \/ \E q \in AssistantQueries :
          calls + asstCalls = 0 /\ AssistantSubmit(q) /\ UNCHANGED proxyVars
    \/ ChatCalls
    \/ AssistantCalls
    \/ \E i \in Invocations : JsonSettled(i) /\ UNCHANGED clientVars
    \/ \E i \in Invocations :
          FetchResolvedFrom(i, EndToEndResponses) /\ UNCHANGED clientVars
    \/ \E i \in Invocations : FetchRejected(i) /\ UNCHANGED clientVars
    \/ \E i \in Invocations : SleepDone(i) /\ UNCHANGED clientVars
    \/ \E i \in Invocations : TextSettled(i) /\ UNCHANGED clientVars
    \/ ChatReturns
    \/ ChatCallFails
    \/ AssistantReturns
    \/ AssistantCallFails
    \/ ChatSleepDone /\ UNCHANGED <<proxyVars, asstVars>>
    \/ ReadResolved /\ UNCHANGED <<proxyVars, asstVars>>
    \/ ReadRejected /\ UNCHANGED <<proxyVars, asstVars>>
    \/ AssistantReadResolved /\ UNCHANGED proxyVars
    \/ AssistantReadRejected /\ UNCHANGED proxyVars

EndToEndSpec == EndToEndInit /\ [][EndToEndNext]_vars

(***************************************************************************)
(* Helpers of the properties.                                              *)
(***************************************************************************)
Count(s, x) == Cardinality({k \in 1..Len(s) : s[k] = x})

\* Length of the run of rate-limited statuses that s starts with.
RECURSIVE LeadingRateLimited(_)
LeadingRateLimited(s) ==
    IF s # <<>> /\ Head(s) = 429 THEN 1 + LeadingRateLimited(Tail(s)) ELSE 0

\* In this step invocation i received a response with status st.
Received(i, st) == upResps'[i] = Append(upResps[i], st)

Looping(i) == pc[i] \in {"fetch", "sleep", "text"}

(***************************************************************************)
(* C1.  One invocation issues at most 3 upstream requests whatever         *)
(* upstream answers: every request, a rate-limit retry or the downgrade    *)
(* retry, takes one value of the one attempt counter, and at most one      *)
(* request is in flight at a time.                                         *)
(***************************************************************************)
C1_AtMostThreeRequests ==
    \A i \in Invocations :
        /\ Len(upReqs[i]) <= 3
        /\ inflight[i] <= 1
        /\ (pc[i] = "fetch" <=> inflight[i] = 1)
        /\ (Looping(i) => Len(upReqs[i]) = attempt[i] + 1)
        /\ Len(upResps[i]) <= Len(upReqs[i])

\* Three requests: a rate-limit retry, the downgrade retry.
C1_Witness ==
    /\ Len(upReqs[1]) = 3
    /\ upResps[1] = <<429, 402>>
    /\ triedLite[1]
    /\ inflight[1] = 1

(***************************************************************************)
(* C2.  The model goes from the primary to the cheaper one at most once,   *)
(* at the first quota response and only there; it never goes back; a quota *)
(* response received after the switch ends the call with the 402 error.    *)
(***************************************************************************)
C2_Step(i) ==
    /\ (model[i] = LiteModel => model'[i] = LiteModel)
    /\ (model[i] # None /\ model'[i] # model[i] =>
            /\ model[i] = PrimaryModel
            /\ model'[i] = LiteModel
            /\ ~triedLite[i]
            /\ Received(i, 402))
    /\ (triedLite[i] => triedLite'[i])
    /\ (Received(i, 402) /\ triedLite[i] =>
            /\ pc'[i] = "done"
            /\ result'[i] = PaymentRequired
            /\ upReqs'[i] = upReqs[i])

C2_State(i) ==
    model[i] # None =>
        /\ model[i] \in {PrimaryModel, LiteModel}
        /\ (model[i] = LiteModel <=> triedLite[i])
        /\ (model[i] = LiteModel <=> Count(upResps[i], 402) >= 1)
        /\ Count(upResps[i], 402) <= 2

C2_DowngradeOnce ==
    /\ [](\A i \in Invocations : C2_State(i))
    /\ [][\A i \in Invocations : C2_Step(i)]_vars

\* A second quota response, after the switch, has ended the call.
C2_Witness ==
    /\ pc[1] = "done"
    /\ upResps[1] = <<402, 429, 402>>
    /\ model[1] = LiteModel
    /\ result[1] = PaymentRequired

(***************************************************************************)
(* C3.  As claimed: a quota response received before any downgrade is      *)
(* always followed at once, with no wait, by a request with the cheaper    *)
(* model, on whichever attempt it arrives.                                 *)
(***************************************************************************)
C3_RetriesAtOnce(i) ==
    /\ pc'[i] = "fetch"
    /\ upReqs'[i] = Append(upReqs[i], UpstreamRequest(LiteModel, inbound[i].messages))
    /\ sleeps'[i] = sleeps[i]
    /\ retryAfter'[i] = retryAfter[i]

C3_Original ==
    [][\A i \in Invocations :
          Received(i, 402) /\ ~triedLite[i] => C3_RetriesAtOnce(i)]_vars

(***************************************************************************)
(* C3, amended.  A quota response received before any downgrade on the 1st *)
(* or 2nd attempt is followed at once, with no wait, by a request with the *)
(* cheaper model; on the 3rd attempt the model is switched but the attempt *)
(* counter is used up: no request follows and the call returns the         *)
(* terminal 429 error.                                                     *)
(***************************************************************************)
C3_Amended ==
    [][\A i \in Invocations :
          Received(i, 402) /\ ~triedLite[i] =>
              /\ model'[i] = LiteModel
              /\ triedLite'[i]
              /\ IF Len(upReqs[i]) < 3
                 THEN C3_RetriesAtOnce(i)
                 ELSE /\ pc'[i] = "done"
                      /\ result'[i] = RateLimitsExceeded
                      /\ upReqs'[i] = upReqs[i]
                      /\ sleeps'[i] = sleeps[i]]_vars

\* The first quota response came on the 2nd attempt and the 3rd request is out.
C3_Witness ==
    /\ pc[1] = "fetch"
    /\ upResps[1] = <<429, 402>>
    /\ Last(upReqs[1]).model = LiteModel
    /\ sleeps[1] = 1

(***************************************************************************)
(* C4.  An OK upstream response ends the call at once: no further request, *)
(* the upstream body handed through as it is, content type                 *)
(* text/event-stream, x-model-used the model of the request that           *)
(* succeeded, which is the primary or the cheaper model.                   *)
(***************************************************************************)
C4_OkReturnsAtOnce ==
    \A i \in Invocations :
        upResps[i] # <<>> /\ IsOk(Last(upResps[i])) =>
            /\ pc[i] = "done"
            /\ Len(upReqs[i]) = Len(upResps[i])
            /\ Count(upResps[i], 200) + Count(upResps[i], 201) = 1
            /\ result[i].status = 200
            /\ result[i].contentType = "text/event-stream"
            /\ result[i].body = response[i].body
            /\ result[i].body \in UpstreamBodies
            /\ result[i].modelUsed = Last(upReqs[i]).model
            /\ result[i].modelUsed \in {PrimaryModel, LiteModel}

\* Success on the cheaper model, after the downgrade.
C4_Witness ==
    /\ pc[1] = "done"
    /\ upResps[1] = <<402, 200>>
    /\ result[1].modelUsed = LiteModel
    /\ result[1].body = "streamB"

(***************************************************************************)
(* C5.  With upstream answering N rate-limited responses in a row from the *)
(* start, the call makes min(3, N) rate-limited attempts: it never stops   *)
(* on a rate-limited response while attempts remain; N < 3 followed by an  *)
(* OK response is a success after N + 1 requests; N >= 3 is the terminal   *)
(* 429 error after exactly 3 requests.                                     *)
(***************************************************************************)
C5_RateLimitedAttempts ==
    \A i \in Invocations :
        LET n == LeadingRateLimited(upResps[i])
        IN  /\ n <= 3
            /\ (n = Len(upResps[i]) /\ n < 3 /\ n > 0 /\ pc[i] = "done" =>
                    \* only a failed fetch ends a call that saw 429s alone
                    /\ result[i] = Caught(NetworkMessage)
                    /\ Len(upReqs[i]) = n + 1)
            /\ (n = Len(upResps[i]) /\ n > 0 /\ pc[i] # "done" =>
                    /\ pc[i] \in {"sleep", "fetch"}
                    /\ sleeps[i] = n)
            /\ (n < Len(upResps[i]) /\ IsOk(upResps[i][n + 1]) =>
                    /\ pc[i] = "done"
                    /\ result[i].status = 200
                    /\ Len(upReqs[i]) = n + 1)
            /\ (n = 3 =>
                    /\ Len(upReqs[i]) = 3
                    /\ Len(upResps[i]) = 3
                    /\ (pc[i] = "done" => result[i] = RateLimitsExceeded)
                    /\ pc[i] \in {"sleep", "done"})

\* Three rate-limited responses and the terminal 429.
C5_Witness ==
    /\ pc[1] = "done"
    /\ upResps[1] = <<429, 429, 429>>
    /\ result[1] = RateLimitsExceeded

(***************************************************************************)
(* C6.  As claimed: the wait after the k-th attempt, when that attempt is  *)
(* rate-limited, is the retry-after value whenever the header is present   *)
(* and numeric, the value 0 included, and k x 800 otherwise.               *)
(***************************************************************************)
\* The header is there and is a decimal number.
IsNumeric(h) ==
    /\ h # NoHeader
    /\ Trim(h) # <<>>
    /\ \A k \in 1..Len(Trim(h)) : Trim(h)[k] \in Digits

C6_WaitIsRetryAfter ==
    \A i \in Invocations :
        pc[i] = "sleep" =>
            LET h == response[i].retryAfter
                k == Len(upReqs[i])
            IN  retryAfter[i] = IF IsNumeric(h) THEN Decimal(Trim(h)) ELSE k * 800

(***************************************************************************)
(* C7.  Every invocation that has begun ends with a response.  A response  *)
(* that is not a success is a JSON error with status 402, 429 or 500: 402  *)
(* only on a quota response after the downgrade, 429 only with the 3       *)
(* attempts used up, 500 on any other non-OK upstream status (no request   *)
(* follows it) and on an exception, whose message the error carries.       *)
(***************************************************************************)
OtherStatus(st) == ~IsOk(st) /\ st # 429 /\ st # 402

C7_State(i) ==
    /\ (pc[i] = "done" <=> result[i] # NoResponse)
    /\ (pc[i] = "done" /\ result[i].status # 200 =>
            /\ result[i].status \in {402, 429, 500}
            /\ result[i].contentType = "application/json"
            /\ result[i].error # None
            /\ result[i].body = None)
    /\ (pc[i] = "done" /\ result[i].status = 402 =>
            /\ result[i] = PaymentRequired
            /\ Len(upResps[i]) >= 2
            /\ Last(upResps[i]) = 402
            /\ Count(upResps[i], 402) = 2
            /\ model[i] = LiteModel)
    /\ (pc[i] = "done" /\ result[i].status = 429 =>
            /\ result[i] = RateLimitsExceeded
            /\ attempt[i] = 3
            /\ Len(upReqs[i]) = 3
            /\ Len(upResps[i]) = 3
            /\ Last(upResps[i]) \in {429, 402})
    /\ (pc[i] = "done" /\ result[i].status = 500 =>
            \/ /\ result[i] = GatewayError
               /\ OtherStatus(Last(upResps[i]))
            \/ /\ result[i].error = BodyReadMessage
               /\ OtherStatus(Last(upResps[i]))
            \/ /\ result[i].error = NetworkMessage
               /\ Len(upReqs[i]) = Len(upResps[i]) + 1
            \/ /\ result[i].error = JsonSyntaxMessage
               /\ inbound[i].body = "malformed"
               /\ upReqs[i] = <<>>
            \/ /\ result[i].error = NotIterableMessage
               /\ inbound[i].body = "noMessages"
               /\ upReqs[i] = <<>>
            \/ /\ result[i].error = KeyMissingMessage
               /\ ~keyConfigured
               /\ upReqs[i] = <<>>)
    /\ (upResps[i] # <<>> /\ OtherStatus(Last(upResps[i])) =>
            /\ pc[i] \in {"text", "done"}
            /\ Len(upReqs[i]) = Len(upResps[i])
            /\ (pc[i] = "done" => result[i].status = 500))
    /\ (pc[i] = "done" /\ inbound[i].body = "malformed" /\ inbound[i].method = "POST" =>
            result[i] = Caught(JsonSyntaxMessage))

C7_TerminalResponses ==
    /\ [](\A i \in Invocations : C7_State(i))
    /\ \A i \in Invocations : (pc[i] \notin {"idle", "off"}) ~> (pc[i] = "done")

\* An upstream 503 on the last attempt, after two rate-limited ones.
C7_Witness ==
    /\ pc[1] = "done"
    /\ upResps[1] = <<429, 429, 503>>
    /\ result[1] = GatewayError

(***************************************************************************)
(* C8.  As claimed: an upstream request is issued only for a request that  *)
(* is no preflight and with the credential configured; a preflight is      *)
(* answered with an empty success before anything else; every other        *)
(* request made with the credential absent ends in the configuration       *)
(* error, no upstream request issued.                                      *)
(***************************************************************************)
C8_Guard(i) ==
    /\ (upReqs[i] # <<>> =>
            /\ inbound[i].method # "OPTIONS"
            /\ keyConfigured
            /\ inbound[i].body = "valid")
    /\ (pc[i] \notin {"idle", "off"} /\ inbound[i].method = "OPTIONS" =>
            /\ pc[i] = "done"
            /\ result[i] = PreflightResponse
            /\ upReqs[i] = <<>>
            /\ model[i] = None)

AllRateLimited(s) == \A k \in 1..Len(s) : s[k] = 429

\* The transcript before the run with the run's utterance appended.
WithUtterance(m) ==
    /\ Len(m) = Len(transcriptBefore) + 1
    /\ SubSeq(m, 1, Len(transcriptBefore)) = transcriptBefore
    /\ Last(m).role = "user"
    /\ Last(m).content \in Queries
    /\ JsTrim(Last(m).content) # <<>>

(***************************************************************************)
(* C9.  As claimed: a run of streamChat that gets three rate-limited       *)
(* responses in a row ends with the transcript as it was before the run.   *)
(***************************************************************************)
C9_Original ==
    calls > 0 /\ chatPc = "idle" /\ relayResps = <<429, 429, 429>> =>
        messages = transcriptBefore

(***************************************************************************)
(* C9, amended.  A run of streamChat that gets three rate-limited          *)
(* responses in a row uses up its 3 attempts and leaves the transcript as  *)
(* it was before the run plus the user's utterance, which the run appended *)
(* when it started; no assistant entry is added at any point of the run.   *)
(***************************************************************************)
C9_Amended ==
    calls > 0 /\ AllRateLimited(relayResps) =>
        /\ WithUtterance(messages)
        /\ messages = newMessages
        /\ assistantContent = <<>>
        /\ (Len(relayResps) = 3 =>
                /\ chatPc = "idle"
                /\ chatAttempt = 3
                /\ Len(relayReqs) = 3
                /\ ~isLoading)
        /\ (Len(relayResps) < 3 => chatPc \in {"fetch", "sleep"} /\ isLoading)

\* Three rate-limited responses in the second run, after a first run that
\* left an assistant entry.
C9_Witness ==
    /\ chatPc = "idle"
    /\ relayResps = <<429, 429, 429>>
    /\ Len(transcriptBefore) = 2
    /\ Last(transcriptBefore).role = "assistant"
    /\ Len(messages) = 3

(***************************************************************************)
(* C10.  As claimed: at most 3 relay requests per utterance; after the     *)
(* n-th rate-limited response of the run the driver waits 700 x n and      *)
(* retries when n < 3, and on the 3rd it stops with the terminal           *)
(* notification, without a wait, the loading flag cleared.                 *)
(***************************************************************************)
C10_AfterRateLimited(n) ==
    /\ Len(relayReqs) <= 3
    /\ (relayResps # <<>> /\ Last(relayResps) = 429 =>
            /\ (n < 3 =>
                    /\ chatPc \in {"sleep", "fetch"}
                    /\ isLoading
                    /\ Last(delays) = 700 * n
                    /\ Last(toasts) = "Rate limited"
                    /\ (chatPc = "fetch" => Len(relayReqs) = Len(relayResps) + 1))
            /\ (n = 3 =>
                    /\ chatPc = "idle"
                    /\ ~isLoading
                    /\ Last(toasts) = "Rate limit exceeded"
                    /\ Len(relayReqs) = 3
                    /\ Len(delays) = 2))

C10_Original == C10_AfterRateLimited(Count(relayResps, 429))

(***************************************************************************)
(* C10, amended.  At most 3 relay requests per utterance; n counts the     *)
(* attempts of the run, whatever ended them (rate limit, failure status,   *)
(* network or read error): after a rate-limited response to the n-th       *)
(* attempt the driver waits 700 x n and retries when n < 3, and when it is *)
(* the 3rd attempt it stops with the terminal notification, without a      *)
(* wait, the loading flag cleared.                                         *)
(***************************************************************************)
C10_State ==
    /\ C10_AfterRateLimited(Len(relayResps))
    /\ chatAttempt <= 3
    /\ (chatPc \in {"fetch", "read"} => Len(relayReqs) = chatAttempt + 1)
    /\ (chatPc = "sleep" => Len(relayReqs) = chatAttempt /\ chatAttempt < 3)
    /\ Len(delays) <= 2

C10_Step ==
    chatPc = "sleep" /\ chatPc' # "sleep" =>
        /\ chatPc' = "fetch"
        /\ relayReqs' = Append(relayReqs, [messages |-> newMessages])
        /\ delays' = delays

C10_Amended == []C10_State /\ [][C10_Step]_vars

\* A rate-limited response to the 2nd attempt, the 1st having failed.
C10_Witness ==
    /\ chatPc = "sleep"
    /\ relayResps = <<0, 429>>
    /\ delays = <<500, 1400>>

(***************************************************************************)
(* C11.  A quota (402) answer from the relay ends the run in the step that *)
(* receives it: no further relay request for the utterance, no wait, the   *)
(* "Out of credits" notification, the loading flag cleared, the transcript *)
(* left as it is (no assistant entry added).                               *)
(***************************************************************************)
C11_Step ==
    relayResps' = Append(relayResps, 402) =>
        /\ chatPc' = "idle"
        /\ ~isLoading'
        /\ toasts' = Append(toasts, "Out of credits")
        /\ messages' = messages
        /\ relayReqs' = relayReqs
        /\ delays' = delays
        /\ chatAttempt' = chatAttempt

C11_State ==
    relayResps # <<>> /\ Last(relayResps) = 402 =>
        /\ chatPc = "idle"
        /\ ~isLoading
        /\ Len(relayReqs) = Len(relayResps)
        /\ Count(relayResps, 402) = 1
        /\ Last(toasts) = "Out of credits"
        /\ Count(toasts, "Error") = 0

C11_QuotaNeverRetried == []C11_State /\ [][C11_Step]_vars

\* A quota answer to the 2nd attempt, the 1st having been rate-limited.
C11_Witness ==
    /\ relayResps = <<429, 402>>
    /\ chatPc = "idle"
    /\ Len(relayReqs) = 2
    /\ ~isLoading

(***************************************************************************)
(* C12.  As claimed: a failure other than 429 and 402 (another non-OK      *)
(* status, a missing body, a network or read exception) is retried: after  *)
(* the n-th such failure of the run, n < 3, the driver waits 500 x n and   *)
(* sends the same request again; the 3rd such failure ends the run with    *)
(* the "Error" notification and the loading flag cleared.                  *)
(***************************************************************************)
\* Attempts of the run that ended in the catch clause: the attempt counter
\* grows there and on a rate-limited answer only (lines 70 and 151).
Failures == chatAttempt - Count(relayResps, 429)

C12_AfterFailure(n) ==
    IF n < 3
    THEN /\ chatPc' = "sleep"
         /\ delays' = Append(delays, 500 * n)
         /\ isLoading' = isLoading
         /\ toasts' = toasts
    ELSE /\ chatPc' = "idle"
         /\ ~isLoading'
         /\ toasts' = Append(toasts, "Error")
         /\ delays' = delays

C12_Original ==
    [][Failures' = Failures + 1 => C12_AfterFailure(Failures')]_vars

(***************************************************************************)
(* C12, amended.  The same with n the number of the attempt that failed,   *)
(* earlier rate-limited attempts of the run counted in: after a failure of *)
(* the n-th attempt, n < 3, the driver waits 500 x n and sends the same    *)
(* request again; a failure of the 3rd attempt ends the run with the       *)
(* "Error" notification and the loading flag cleared.  A non-OK status     *)
(* other than 429 and 402, an OK answer without a body, a rejected fetch   *)
(* and a rejected read are such failures.                                  *)
(***************************************************************************)
C12_IsFailure ==
    \/ \E st \in {0, 204, 500} : relayResps' = Append(relayResps, st)
    \/ chatPc = "read" /\ chatAttempt' = chatAttempt + 1

C12_Step ==
    /\ (C12_IsFailure <=> Failures' = Failures + 1)
    /\ (Failures' = Failures + 1 =>
            /\ chatAttempt' = chatAttempt + 1
            /\ messages' = messages
            /\ C12_AfterFailure(chatAttempt'))
    /\ (chatPc = "sleep" /\ chatPc' # "sleep" =>
            relayReqs' = Append(relayReqs, [messages |-> newMessages]))

C12_State ==
    /\ \A k \in 1..Len(relayReqs) : relayReqs[k] = [messages |-> newMessages]
    /\ Failures \in 0..3
    /\ (Count(toasts, "Error") > 0 => chatAttempt = 3 /\ chatPc = "idle" /\ ~isLoading)

C12_Amended == []C12_State /\ [][C12_Step]_vars

\* A failure of the 2nd attempt, the 1st having been rate-limited: one
\* failure so far, and the wait is 500 x 2.
C12_Witness ==
    /\ chatPc = "sleep"
    /\ relayResps = <<429, 204>>
    /\ delays = <<700, 1000>>
    /\ Failures = 1

(***************************************************************************)
(* The event stream as the relay means it, for the decoder's properties:   *)
(* the lines of a body and what each of them carries.                      *)
(***************************************************************************)
IsPrefix(s, t) == Len(s) <= Len(t) /\ SubSeq(t, 1, Len(s)) = s

\* The lines of a text that a line feed ends.
RECURSIVE CompleteLines(_)
CompleteLines(t) ==
    IF IndexOf(t, LF) = 0 THEN <<>>
    ELSE <<SubSeq(t, 1, IndexOf(t, LF) - 1)>>
            \o CompleteLines(SubSeq(t, IndexOf(t, LF) + 1, Len(t)))

\* What follows the last line feed.
RECURSIVE LastLine(_)
LastLine(t) ==
    IF IndexOf(t, LF) = 0 THEN t ELSE LastLine(SubSeq(t, IndexOf(t, LF) + 1, Len(t)))

\* All the lines, the one the end of the body ends included.
AllLines(t) ==
    IF LastLine(t) = <<>> THEN CompleteLines(t) ELSE Append(CompleteLines(t), LastLine(t))

Payload(l) ==
    LET line == IF EndsWith(l, <<CR>>) THEN SubSeq(l, 1, Len(l) - 1) ELSE l
    IN  JsTrim(SubSeq(line, Len(DataPrefix) + 1, Len(line)))

\* "skip" a blank line, a comment, a line of another field; "done" the
\* sentinel; "event" a data line whose payload parses; "bad" one whose does not.
LineKind(l) ==
    LET line == IF EndsWith(l, <<CR>>) THEN SubSeq(l, 1, Len(l) - 1) ELSE l
    IN  IF JsTrim(line) = <<>> \/ Head(line) = ":" THEN "skip"
        ELSE IF ~StartsWith(line, DataPrefix) THEN "skip"
        ELSE IF Payload(l) = <<DoneMark>> THEN "done"
        ELSE IF Payload(l) = <<EmptyDelta>> THEN "event"
        ELSE IF /\ Len(Payload(l)) >= 2
                /\ Head(Payload(l)) = OpenJson
                /\ Last(Payload(l)) = CloseJson
                /\ \A k \in 2..(Len(Payload(l)) - 1) : Payload(l)[k] \in ContentChars
        THEN "event"
        ELSE "bad"

EventContent(l) ==
    IF Payload(l) = <<EmptyDelta>> THEN <<>>
    ELSE SubSeq(Payload(l), 2, Len(Payload(l)) - 1)

\* The reply the lines carry: the deltas of the events before the sentinel.
RECURSIVE Reply(_)
Reply(lines) ==
    IF lines = <<>> \/ LineKind(Head(lines)) = "done" THEN <<>>
    ELSE IF LineKind(Head(lines)) = "event"
    THEN EventContent(Head(lines)) \o Reply(Tail(lines))
    ELSE Reply(Tail(lines))

WellFormed(t) == \A k \in 1..Len(AllLines(t)) : LineKind(AllLines(t)[k]) # "bad"

HasSentinel(t) ==
    \E k \in 1..Len(CompleteLines(t)) : LineKind(CompleteLines(t)[k]) = "done"

\* What follows the line of the sentinel.
RECURSIVE AfterSentinel(_)
AfterSentinel(t) ==
    IF IndexOf(t, LF) = 0 THEN <<>>
    ELSE IF LineKind(SubSeq(t, 1, IndexOf(t, LF) - 1)) = "done"
    THEN SubSeq(t, IndexOf(t, LF) + 1, Len(t))
    ELSE AfterSentinel(SubSeq(t, IndexOf(t, LF) + 1, Len(t)))

\* The body of the answer the attempt is reading, and the transcript that
\* holds the utterance and the reply c.
BodyText == Flatten(resp.stream)

WithReply(c) ==
    IF c = <<>> THEN newMessages
    ELSE Append(newMessages, [role |-> "assistant", content |-> c])

\* The run read an OK answer's body to its end or to the sentinel.
Completed == chatPc = "idle" /\ resp.status = 200 /\ resp.hasBody /\ chatAttempt = 0

(***************************************************************************)
(* C13.  The decoder's result depends on the body only, not on how it is   *)
(* cut into chunks: for a well-formed body, whatever the cuts (inside a    *)
(* payload too), the calls of setMessages and the final transcript are     *)
(* those of the body decoded as one chunk, and no line is ever put back    *)
(* (no decode error); a payload cut in two gives one update.               *)
(***************************************************************************)
Unsplit ==
    DecodeLines([buf |-> BodyText, content |-> <<>>, msgs |-> newMessages,
                 log |-> <<>>, done |-> FALSE])

C13_ChunkingIrrelevant ==
    resp.status = 200 /\ resp.hasBody /\ WellFormed(BodyText) =>
        /\ IsPrefix(updates, Unsplit.log)
        /\ (chatPc = "read" => IndexOf(textBuffer, LF) = 0)
        /\ (Completed =>
                /\ updates = Unsplit.log
                /\ messages = Unsplit.msgs
                /\ assistantContent = Unsplit.content
                /\ streamDone = Unsplit.done)

\* The payload "hi" cut in two: one update, with "hi".
C13_Witness ==
    /\ Completed
    /\ resp.stream = << DataPrefix \o <<OpenJson, "h">>,
                        <<"i", CloseJson, LF>> \o DataLine(<<DoneMark>>) >>
    /\ updates = << <<"h", "i">> >>
    /\ messages = WithReply(<<"h", "i">>)

(***************************************************************************)
(* C14.  An attempt's fold keeps one assistant entry at the end of the     *)
(* transcript: the first delta that has content puts one assistant entry   *)
(* after the user's utterance (appended when the transcript ends with the  *)
(* utterance), every later delta replaces the content of that entry with   *)
(* the deltas so far joined in their order, two assistant entries never    *)
(* follow each other, and no step changes an entry other than the last.    *)
(***************************************************************************)
AssistantEntry(c) == [role |-> "assistant", content |-> c]

C14_State ==
    /\ \A k \in 1..(Len(messages) - 1) :
           ~(messages[k].role = "assistant" /\ messages[k + 1].role = "assistant")
    /\ \A k \in 2..Len(updates) :
           IsPrefix(updates[k - 1], updates[k]) /\ updates[k - 1] # updates[k]
    /\ (updates # <<>> =>
            /\ Last(updates) = assistantContent
            /\ messages = Append(newMessages, AssistantEntry(assistantContent)))
    /\ (updates = <<>> /\ chatPc = "read" => assistantContent = <<>>)
    /\ (calls > 0 /\ chatAttempt = 0 /\ updates = <<>> => messages = newMessages)

C14_Step ==
    calls' = calls =>
        /\ Len(messages') \in {Len(messages), Len(messages) + 1}
        /\ \A k \in 1..(Len(messages) - 1) : messages'[k] = messages[k]
        /\ (Len(messages') = Len(messages) + 1 =>
                /\ updates = <<>> /\ updates' # <<>>
                /\ Last(messages).role = "user"
                /\ messages' = Append(messages, AssistantEntry(assistantContent')))
        /\ (updates = <<>> /\ updates' # <<>> /\ Last(messages).role = "user" =>
                Len(messages') = Len(messages) + 1)
        /\ (updates' # updates /\ updates' # <<>> =>
                /\ Last(messages').role = "assistant"
                /\ Last(messages').content = Last(updates'))

C15_NoLineDropped ==
    Completed =>
        /\ toasts = <<>>
        /\ assistantContent = Reply(CompleteLines(BodyText))
        /\ messages = WithReply(Reply(CompleteLines(BodyText)))

(***************************************************************************)
(* C16.  As claimed: when a well-formed body has been read to its end (no  *)
(* sentinel met), the transcript holds the whole reply: the deltas of      *)
(* every event of the body joined in their order, the event of a last line *)
(* that the end of the body ends, not a line feed, included.               *)
(***************************************************************************)
C16_CompleteReply ==
    Completed /\ ~streamDone /\ WellFormed(BodyText) =>
        /\ stream = <<>>
        /\ assistantContent = Reply(AllLines(BodyText))
        /\ messages = WithReply(Reply(AllLines(BodyText)))

(***************************************************************************)
(* C17.  Decoding stops at the sentinel or at the end of the body,         *)
(* whichever comes first.  Once the line of the sentinel is processed      *)
(* nothing more is read or folded: what follows it in the body stays in    *)
(* the buffer and in the chunks not read, and the transcript stays as it   *)
(* is.  Blank lines, comments and lines of other fields change nothing:    *)
(* the transcript of a well-formed body holds the deltas of the event      *)
(* lines before the sentinel and nothing else.                             *)
(***************************************************************************)
C17_State ==
    resp.status = 200 /\ resp.hasBody /\ WellFormed(BodyText) =>
        /\ (streamDone =>
                /\ chatPc = "idle"
                /\ HasSentinel(BodyText)
                /\ textBuffer \o Flatten(stream) = AfterSentinel(BodyText))
        /\ (Completed =>
                /\ (streamDone <=> HasSentinel(BodyText))
                /\ (~streamDone => stream = <<>>)
                /\ assistantContent = Reply(CompleteLines(BodyText))
                /\ messages = WithReply(Reply(CompleteLines(BodyText))))
        /\ (chatPc = "read" => ~streamDone)

C17_Step ==
    streamDone /\ calls' = calls =>
        UNCHANGED <<messages, stream, textBuffer, assistantContent, updates, chatPc>>

C17_StopsAtSentinel == []C17_State /\ [][C17_Step]_vars

\* The sentinel met in the 2nd chunk of 3, an event after it: the event and
\* the 3rd chunk are left alone.
C17_Witness ==
    /\ Completed
    /\ streamDone
    /\ Len(resp.stream) = 3
    /\ Len(stream) = 1
    /\ \E k \in 1..Len(CompleteLines(textBuffer \o Flatten(stream))) :
           LineKind(CompleteLines(textBuffer \o Flatten(stream))[k]) = "event"
    /\ assistantContent = <<"h", "i">>

(***************************************************************************)
(* C18.  Every run of a driver, primary or auxiliary, ends, given that     *)
(* each relay call and each body read returns or fails; it ends on one of  *)
(* its exit paths (the body read to its end or to the sentinel, the        *)
(* terminal rate limit, the quota answer, the failures used up) and every  *)
(* one of them clears the conversation's loading flag: the flag is set     *)
(* exactly while a run is under way.                                       *)
(***************************************************************************)
C18_State ==
    /\ (isLoading <=> chatPc # "idle")
    /\ (isAssistantLoading <=> asstPc # "idle")
    /\ (calls > 0 /\ chatPc = "idle" =>
            \/ Last(relayResps) = 200 /\ (streamDone \/ stream = <<>>)
                 /\ (toasts = <<>> \/ Last(toasts) \in {"Rate limited", "Economy mode"})
            \/ Last(relayResps) = 429 /\ Last(toasts) = "Rate limit exceeded"
            \/ Last(relayResps) = 402 /\ Last(toasts) = "Out of credits"
            \/ chatAttempt = 3 /\ Last(toasts) = "Error")
    /\ (asstCalls > 0 /\ asstPc = "idle" =>
            \/ asstResps = <<200>> /\ (asstStreamDone \/ asstStream = <<>>)
                 /\ asstToasts = <<>>
            \/ asstResps = <<429>> /\ asstToasts = <<"Rate limited">>
            \/ asstResps = <<402>> /\ asstToasts = <<"Out of credits">>
            \/ asstToasts = <<"Error">>)

C18_RunsEnd ==
    /\ []C18_State
    /\ (isLoading ~> ~isLoading)
    /\ (isAssistantLoading ~> ~isAssistantLoading)

\* Both runs over: the primary one with its failures used up, the auxiliary
\* one with its body read to the sentinel.
C18_Witness ==
    /\ calls = 1 /\ chatPc = "idle" /\ ~isLoading
    /\ chatAttempt = 3 /\ Last(toasts) = "Error"
    /\ asstCalls = 1 /\ asstPc = "idle" /\ ~isAssistantLoading
    /\ asstStreamDone /\ asstContent = <<"H", "e", "l", "l", "o">>

(***************************************************************************)
(* C19.  The loading flag is a gate: in each conversation a run starts     *)
(* only with the flag clear and no run under way, so at most one run, and  *)
(* at most one relay request of it, is in flight at any time; while the    *)
(* flag is set a submit starts nothing and the transcript changes by the   *)
(* run's fold only.                                                        *)
(***************************************************************************)
C19_State ==
    /\ (isLoading <=> chatPc # "idle")
    /\ (isAssistantLoading <=> asstPc # "idle")
    /\ Len(relayReqs) - Len(relayResps) = IF chatPc = "fetch" THEN 1 ELSE 0
    /\ Len(asstReqs) - Len(asstResps) = IF asstPc = "fetch" THEN 1 ELSE 0

C19_Step ==
    /\ (calls' # calls =>
            /\ ~isLoading /\ chatPc = "idle"
            /\ isLoading' /\ chatPc' = "fetch"
            /\ calls' = calls + 1)
    /\ (asstCalls' # asstCalls =>
            /\ ~isAssistantLoading /\ asstPc = "idle"
            /\ isAssistantLoading' /\ asstPc' = "fetch"
            /\ asstCalls' = asstCalls + 1)
    /\ (isLoading /\ messages' # messages =>
            /\ chatPc = "read"
            /\ calls' = calls
            /\ messages' = Append(newMessages, AssistantEntry(assistantContent')))
    /\ (isAssistantLoading /\ assistantMessages' # assistantMessages =>
            /\ asstPc = "read"
            /\ asstCalls' = asstCalls
            /\ Last(assistantMessages') = AssistantEntry(asstContent'))

C19_LoadingGate == []C19_State /\ [][C19_Step]_vars

\* A run of each conversation under way at once, one of each.
C19_Witness ==
    /\ isLoading /\ chatPc = "read" /\ calls = 1
    /\ isAssistantLoading /\ asstPc = "fetch" /\ asstCalls = 1
    /\ Len(asstReqs) = 1

(***************************************************************************)
(* C20.  The two conversations are independent however their runs          *)
(* interleave: no step changes state of both; a step of the primary driver *)
(* leaves the auxiliary transcript, flag and locals alone and a step of    *)
(* the auxiliary driver leaves the primary ones alone; each transcript     *)
(* holds its own conversation's utterances and replies only; and each      *)
(* attempt starts with an empty buffer and accumulator, each run with the  *)
(* attempt counter at 0.                                                   *)
(***************************************************************************)
C20_Step ==
    /\ ~(chatVars' # chatVars /\ asstVars' # asstVars)
    /\ (asstPc' # asstPc \/ asstCalls' # asstCalls =>
            messages' = messages /\ isLoading' = isLoading)
    /\ (chatPc' # chatPc \/ calls' # calls =>
            assistantMessages' = assistantMessages
              /\ isAssistantLoading' = isAssistantLoading)
    /\ (calls' # calls => chatAttempt' = 0)
    /\ (chatPc = "fetch" /\ chatPc' = "read" =>
            textBuffer' = <<>> /\ assistantContent' = <<>>)
    /\ (asstPc = "fetch" /\ asstPc' = "read" =>
            asstTextBuffer' = <<>> /\ asstContent' = <<>>)

C20_State ==
    /\ \A k \in 1..Len(messages) :
           \/ messages[k].role = "user" /\ messages[k].content \in Queries
           \/ messages[k].role = "assistant"
    /\ \A k \in 1..Len(assistantMessages) :
           \/ /\ assistantMessages[k].role = "user"
              /\ assistantMessages[k].content \in AssistantQueries
           \/ assistantMessages[k].role = "assistant"
    /\ Len(messages) <= 2 * calls
    /\ Len(assistantMessages) <= 2 * asstCalls
    /\ (chatPc = "read" /\ updates # <<>> => Last(messages).content = assistantContent)
    /\ (asstPc = "read" /\ asstContent # <<>> =>
            Last(assistantMessages).content = asstContent)

C20_Independent == []C20_State /\ [][C20_Step]_vars

\* The two runs in the middle of their bodies, the primary one on its 2nd
\* attempt, each with its own buffer and accumulator.
C20_Witness ==
    /\ chatPc = "read" /\ asstPc = "read"
    /\ chatAttempt = 1
    /\ assistantContent = <<"H", "e">>
    /\ asstContent = <<>>
    /\ asstTextBuffer # <<>>
    /\ textBuffer = <<>>
    /\ Len(messages) = 2 /\ Len(assistantMessages) = 1

(***************************************************************************)
(* C21.  Invocations of the proxy share no mutable state: with two of them *)
(* interleaved in every way, a step of one leaves every local of the other *)
(* alone; the first upstream request of each uses the primary model and    *)
(* its attempt counter starts at 0; the model and the counter of an        *)
(* invocation are a function of the answers to its own requests only.      *)
(***************************************************************************)
Locals(i) ==
    <<pc[i], inbound[i], model[i], triedLite[i], attempt[i], response[i],
      retryAfter[i], sleeps[i], upReqs[i], upResps[i], inflight[i], result[i]>>

C21_Step ==
    /\ \E i \in Invocations :
           \A j \in Invocations \ {i} : Locals(j)' = Locals(j)
    /\ keyConfigured' = keyConfigured
    /\ \A i \in Invocations :
           upReqs[i] = <<>> /\ upReqs'[i] # <<>> =>
               /\ upReqs'[i] = <<UpstreamRequest(PrimaryModel, inbound[i].messages)>>
               /\ attempt'[i] = 0
               /\ ~triedLite'[i]

C21_State ==
    \A i \in Invocations :
        /\ (upReqs[i] # <<>> => upReqs[i][1].model = PrimaryModel)
        /\ (model[i] # None =>
                model[i] = IF Count(upResps[i], 402) >= 1
                           THEN LiteModel ELSE PrimaryModel)
        /\ (Looping(i) => attempt[i] = Len(upReqs[i]) - 1)
        /\ (Looping(i) => Last(upReqs[i]).model = model[i])

C21_NoSharedState == []C21_State /\ [][C21_Step]_vars

\* Invocation 1 has downgraded and used up two attempts; invocation 2 has its
\* first request in flight, with the primary model and its counter at 0.
C21_Witness ==
    /\ model[1] = LiteModel
    /\ attempt[1] = 2
    /\ pc[1] = "fetch"
    /\ pc[2] = "fetch"
    /\ upResps[2] = <<>>
    /\ upReqs[2] = <<UpstreamRequest(PrimaryModel, inbound[2].messages)>>
    /\ attempt[2] = 0
    /\ model[2] = PrimaryModel

(***************************************************************************)
(* C22.  The auxiliary driver makes one attempt: a run sends one relay     *)
(* request, at its start, and none later; a rate-limited, quota or other   *)
(* failure status and a network error each end the run in that very step   *)
(* with one notification and the loading flag cleared; the request starts  *)
(* with the system instruction, followed by the transcript, and the        *)
(* transcript never holds a system entry.                                  *)
(***************************************************************************)
\* The notification that answers a relay call settled as st (0: it threw).
AssistantNotice(st) ==
    IF st = 429 THEN "Rate limited"
    ELSE IF st = 402 THEN "Out of credits"
    ELSE "Error"

C22_Step ==
    /\ (asstReqs' # asstReqs =>
            /\ asstCalls' = asstCalls + 1
            /\ asstPc = "idle"
            /\ asstReqs' = <<[messages |-> <<SystemPrompt>> \o assistantMessages']>>
            /\ Len(assistantMessages') = Len(assistantMessages) + 1
            /\ Last(assistantMessages').role = "user")
    /\ (asstResps' # asstResps /\ asstResps' # <<>> /\ ~IsOk(Last(asstResps')) =>
            /\ asstPc = "fetch" /\ asstPc' = "idle"
            /\ ~isAssistantLoading'
            /\ asstToasts' = <<AssistantNotice(Last(asstResps'))>>
            /\ asstReqs' = asstReqs
            /\ assistantMessages' = assistantMessages)

C22_State ==
    /\ Len(asstReqs) <= 1
    /\ Len(asstResps) <= 1
    /\ (asstPc # "idle" => Len(asstReqs) = 1)
    /\ (asstPc = "read" => asstResps # <<>> /\ IsOk(asstResps[1]))
    /\ Len(asstToasts) <= 1
    /\ \A k \in 1..Len(assistantMessages) : assistantMessages[k].role # "system"
    /\ \A k \in 1..Len(asstReqs) :
           /\ Head(asstReqs[k].messages) = SystemPrompt
           /\ \A n \in 2..Len(asstReqs[k].messages) :
                  asstReqs[k].messages[n].role # "system"

C22_SingleAttempt == []C22_State /\ [][C22_Step]_vars

\* The second utterance of the auxiliary conversation was rate-limited: one
\* request, one notification, the flag cleared, the transcript without the
\* system instruction.
C22_Witness ==
    /\ asstCalls = 2
    /\ asstPc = "idle"
    /\ asstResps = <<429>>
    /\ asstToasts = <<"Rate limited">>
    /\ ~isAssistantLoading
    /\ Len(asstReqs) = 1
    /\ Len(asstReqs[1].messages) = 4
    /\ Len(assistantMessages) = 3

(***************************************************************************)
(* C23.  As claimed: the primary driver re-issues a relay request only     *)
(* after a rate-limited (429) answer or after the network call failed (the *)
(* fetch threw, or the connection broke while the body was read); an       *)
(* answer with any other status is never followed by a re-issue.           *)
(***************************************************************************)
\* In this step the run sends its request again.
Reissues == calls' = calls /\ Len(relayReqs') = Len(relayReqs) + 1

C23_Original ==
    [][Reissues =>
          \/ Last(relayResps) \in {429, 0}
          \/ IsOk(Last(relayResps)) /\ resp.hasBody]_vars

(***************************************************************************)
(* C23.  Amended: the primary driver re-issues its request after every     *)
(* failed attempt that leaves attempts over, the failure being a 429, a    *)
(* thrown fetch, a broken body read, an OK answer without a body, or any   *)
(* non-OK status but 402 (the relay's 500 included); only a 402 and a      *)
(* finished stream are never followed by a re-issue.                       *)
(***************************************************************************)
C23_Step ==
    /\ (Reissues =>
            /\ chatPc = "sleep"
            /\ Last(relayResps) # 402
            /\ chatAttempt < chatMaxRetries
            /\ Last(relayReqs') = Last(relayReqs))
    /\ (chatPc = "fetch" /\ relayResps' # relayResps
          /\ Last(relayResps') # 402
          /\ (~IsOk(Last(relayResps')) \/ ~resp'.hasBody)
          /\ chatAttempt + 1 < chatMaxRetries =>
            chatPc' = "sleep" /\ isLoading')
    /\ (chatPc = "fetch" /\ relayResps' # relayResps /\ Last(relayResps') = 402 =>
            chatPc' = "idle")
    /\ (chatPc = "read" /\ chatPc' = "idle" /\ ~isLoading' /\ toasts' = toasts =>
            relayReqs' = relayReqs)

C23_State ==
    /\ (chatPc = "sleep" =>
            /\ relayResps # <<>>
            /\ Last(relayResps) # 402
            /\ chatAttempt < chatMaxRetries
            /\ chatAttempt = Len(relayReqs))
    /\ (chatPc = "idle" /\ relayResps # <<>> /\ Last(relayResps) = 402 =>
            Len(relayReqs) = Len(relayResps))

C23_Amended == []C23_State /\ [][C23_Step]_vars

\* The relay answered 500 and the request has been sent a second time.
C23_Witness ==
    /\ chatPc = "fetch"
    /\ relayResps = <<500>>
    /\ Len(relayReqs) = 2
    /\ relayReqs[2] = relayReqs[1]
    /\ delays = <<FailureDelay(1)>>

(***************************************************************************)
(* C24.  With the two retry loops composed, one utterance of the primary   *)
(* conversation causes at most 9 upstream requests, 3 for each of at most  *)
(* 3 relay requests, and one utterance of the auxiliary conversation at    *)
(* most 3, for its one relay request; every relay request of a run carries *)
(* the same list, the transcript before the call followed by the           *)
(* utterance, whatever was folded into the transcript by a failed attempt, *)
(* and every upstream request carries that list after the preamble.        *)
(***************************************************************************)
\* The user entry the run started with.
Utterance == newMessages[Len(newMessages)]

C24_State ==
    /\ Len(upReqs[Primary]) <= 9
    /\ Len(upReqs[Primary]) <= 3 * Len(relayReqs)
    /\ Len(relayReqs) <= 3
    /\ Len(upReqs[Auxiliary]) <= 3
    /\ Len(upReqs[Auxiliary]) <= 3 * Len(asstReqs)
    /\ Len(asstReqs) <= 1
    /\ \A k \in 1..Len(relayReqs) :
           /\ relayReqs[k].messages = Append(transcriptBefore, Utterance)
           /\ Utterance.role = "user"
    /\ \A k \in 1..Len(upReqs[Primary]) :
           upReqs[Primary][k].messages = <<SystemPreamble>> \o newMessages
    /\ \A k \in 1..Len(upReqs[Auxiliary]) :
           upReqs[Auxiliary][k].messages
               = <<SystemPreamble>> \o asstReqs[1].messages

C24_Step ==
    /\ (calls' = calls /\ relayReqs' # relayReqs =>
            /\ Len(relayReqs') = Len(relayReqs) + 1
            /\ Last(relayReqs') = Last(relayReqs))
    /\ (calls' = calls => newMessages' = newMessages)

C24_ComposedBudget == []C24_State /\ [][C24_Step]_vars

\* Three relay requests, each answered 429 after three rate-limited upstream
\* requests: 9 upstream requests, and the run is over.
C24_Witness ==
    /\ Len(upReqs[Primary]) = 9
    /\ relayResps = <<429, 429, 429>>
    /\ chatPc = "idle"
    /\ ~isLoading
    /\ Last(toasts) = "Rate limit exceeded"

(***************************************************************************)
(* C25.  When an attempt of a call has failed and a later attempt of the   *)
(* call reads its body to the end with at least one delta folded, the      *)
(* transcript is the one before the call, the utterance and one assistant  *)
(* entry, whose content is the text of the last attempt alone: the first   *)
(* fold of an attempt that finds the partial entry of a failed attempt     *)
(* replaces its content and adds no entry.                                 *)
(***************************************************************************)
\* The last attempt of the run read an OK answer's body to its end or to the
\* sentinel.
Succeeded ==
    /\ chatPc = "idle"
    /\ relayResps # <<>>
    /\ Last(relayResps) = 200
    /\ resp.hasBody
    /\ (toasts # <<>> => Last(toasts) # "Error")

C25_State ==
    Succeeded /\ chatAttempt >= 1 /\ updates # <<>> =>
        /\ messages = transcriptBefore
                         \o <<Utterance, AssistantEntry(assistantContent)>>
        /\ assistantContent = Last(updates)
        /\ ~isLoading
        /\ (WellFormed(BodyText) =>
                /\ assistantContent = Unsplit.content
                /\ assistantContent = Reply(CompleteLines(BodyText)))

C25_Step ==
    chatPc = "read" /\ updates = <<>> /\ updates' # <<>>
      /\ Last(messages).role = "assistant" =>
        /\ chatAttempt >= 1
        /\ Len(messages') = Len(messages)
        /\ messages' = Append(newMessages, AssistantEntry(assistantContent'))
        /\ assistantContent' = Last(updates')
        /\ (WellFormed(BodyText) =>
                IsPrefix(assistantContent', Reply(CompleteLines(BodyText))))

C25_PartialReplaced == []C25_State /\ [][C25_Step]_vars

\* The first two attempts failed, the third read "hi" to the end of its body:
\* one assistant entry, "hi".
C25_Witness ==
    /\ Succeeded
    /\ chatAttempt = 2
    /\ relayResps = <<200, 200, 200>>
    /\ assistantContent = <<"h", "i">>
    /\ messages = Append(newMessages, AssistantEntry(<<"h", "i">>))
    /\ Len(transcriptBefore) = 2

(***************************************************************************)
(* C26.  In one invocation of the proxy the backoff waits begun are as     *)
(* many as the rate-limited (429) responses received: every 429 is         *)
(* followed at once by a wait, the one to the third attempt too, and the   *)
(* terminal 429 error that follows three of them is returned when that     *)
(* wait is over; a quota (402) response is never followed by a wait.       *)
(***************************************************************************)
C26_State ==
    \A i \in Invocations :
        /\ sleeps[i] = Count(upResps[i], 429)
        /\ (pc[i] = "sleep" => upResps[i] # <<>> /\ Last(upResps[i]) = 429)
        /\ (result[i] = RateLimitsExceeded =>
                \/ sleeps[i] = 3
                \/ sleeps[i] = 2 /\ Count(upResps[i], 402) = 1)

C26_Step ==
    \A i \in Invocations :
        /\ (Received(i, 429) =>
                /\ pc'[i] = "sleep"
                /\ sleeps'[i] = sleeps[i] + 1
                /\ result'[i] = NoResponse
                /\ upReqs'[i] = upReqs[i])
        /\ (Received(i, 402) => pc'[i] # "sleep" /\ sleeps'[i] = sleeps[i])
        /\ (sleeps'[i] # sleeps[i] => Received(i, 429))
        /\ (pc[i] = "sleep" /\ pc'[i] # "sleep" =>
                /\ attempt'[i] = attempt[i] + 1
                /\ (Count(upResps[i], 429) = 3 =>
                        pc'[i] = "done" /\ result'[i] = RateLimitsExceeded))

C26_WaitPerRateLimit == []C26_State /\ [][C26_Step]_vars

\* The third rate-limited response has been received and the invocation is
\* in its third wait, the terminal error not yet returned.
C26_Witness ==
    /\ pc[1] = "sleep"
    /\ upResps[1] = <<429, 429, 429>>
    /\ sleeps[1] = 3
    /\ attempt[1] = 2
    /\ retryAfter[1] = 3 * BackoffUnit
    /\ result[1] = NoResponse

====
